---- MODULE Spec2Model ----
(***************************************************************************)
(* A model of the step_language pipeline: tokenizer.py (Tokenizer,         *)
(* DebugInfo), parser.py (the AST classes, their print() methods and the   *)
(* recursive-descent Parser) and evaluator.py (Value, Evaluator).          *)
(*                                                                         *)
(* Source text is a sequence of one-character strings.  A Python list is   *)
(* a reference into `heap`, so that two Values can share one list.         *)
(***************************************************************************)
EXTENDS Integers, Sequences, FiniteSets, TLC

VARIABLES
    source,      \* Tokenizer.source: the program text
    program,     \* the Program given to Evaluator.evaluate (its statement_list)
    pc,          \* position of the driver: which call comes next
    index,       \* how many top-level statements __evaluate_program has taken
    variables,   \* Evaluator.__variables: name -> Value
    heap,        \* the storage of the Python lists that List Values refer to
    error,       \* the exception that ended the run, or NoError
    last,        \* what the last top-level statement returned, with its trace
    printed,     \* what Program.print() wrote, once it has run
    reparsed,    \* what the parser made of the printed text, once it has run
    tokenizer,   \* the Tokenizer of tokenizer.py's main: __index and the line
    tokens,      \* the Tokens that tokenizer.py's main has read and printed
    current_token  \* the Parser's __current_token while it parses by statements

vars ==
    <<source, program, pc, index, variables, heap, error, last, printed,
      reparsed, tokenizer, tokens, current_token>>

(***************************************************************************)
(* Bounds of the model.                                                    *)
(***************************************************************************)
\* The number of loop iterations and user-function calls one top-level
\* statement may make before the model stops following it.
MaxFuel == 8

(***************************************************************************)
(* tokenizer.py: Token                                                     *)
(***************************************************************************)
\* A Token without payload carries Python's None as its value.
Token(token_type) == [type |-> token_type]

TokenNumber(n) == [type |-> "number", value |-> n, float |-> FALSE]

\* A NUMBER token whose value is the Python float n.0.
TokenFloat(n) == [type |-> "number", value |-> n, float |-> TRUE]

TokenString(s) == [type |-> "string", value |-> s]

TokenIdentifier(name) == [type |-> "identifier", value |-> name]

(***************************************************************************)
(* tokenizer.py: DebugInfo                                                 *)
(***************************************************************************)
DebugInfo(line_number, line_start_index) ==
    [line_number |-> line_number, line_start_index |-> line_start_index]

\* Python's None where an Expression or a statement list is optional.
Null == [type |-> "NULL"]

(***************************************************************************)
(* parser.py: the Expression classes                                       *)
(***************************************************************************)
ExpressionAssignment(expression1, expression2, debug_info) ==
    [type |-> "ASSIGNMENT", expression1 |-> expression1,
     expression2 |-> expression2, debug_info |-> debug_info]

ExpressionAndOr(expression1, expression2, token, debug_info) ==
    [type |-> "ANDOR", expression1 |-> expression1,
     expression2 |-> expression2, token |-> token, debug_info |-> debug_info]

ExpressionBinary(expression1, expression2, token, debug_info) ==
    [type |-> "BINARY", expression1 |-> expression1,
     expression2 |-> expression2, token |-> token, debug_info |-> debug_info]

ExpressionUnary(expression1, token, debug_info) ==
    [type |-> "UNARY", expression1 |-> expression1, token |-> token,
     debug_info |-> debug_info]

ExpressionLiteral(token, debug_info) ==
    [type |-> "LITERAL", token |-> token, debug_info |-> debug_info]

ExpressionIdentifier(token, debug_info) ==
    [type |-> "IDENTIFIER", token |-> token, debug_info |-> debug_info]

ExpressionList(expression_list, debug_info) ==
    [type |-> "LIST", expression_list |-> expression_list,
     debug_info |-> debug_info]

ExpressionSubscription(expression1, expression2, debug_info) ==
    [type |-> "SUBSCRIPTION", expression1 |-> expression1,
     expression2 |-> expression2, debug_info |-> debug_info]

ExpressionCall(expression1, expression_list, debug_info) ==
    [type |-> "CALL", expression1 |-> expression1,
     expression_list |-> expression_list, debug_info |-> debug_info]

(***************************************************************************)
(* parser.py: the Statement classes.  An optional member holds Null.  A    *)
(* StatementFunction is compared by object identity in Value.is_equal; its *)
(* identity is the field `id`.                                             *)
(***************************************************************************)
StatementNone == [type |-> "NONE"]

StatementExpression(expression) ==
    [type |-> "EXPRESSION", expression |-> expression]

\* statement_list2 is [none |-> TRUE] for Python's None (no else clause).
StatementIf(expression, statement_list1, statement_list2) ==
    [type |-> "IF", expression |-> expression,
     statement_list1 |-> statement_list1, statement_list2 |-> statement_list2]

NoElse == [none |-> TRUE]

Else(statement_list) == [none |-> FALSE, list |-> statement_list]

StatementWhile(expression, statement_list1) ==
    [type |-> "WHILE", expression |-> expression,
     statement_list1 |-> statement_list1]

StatementBreak == [type |-> "BREAK"]

StatementContinue == [type |-> "CONTINUE"]

StatementReturn(expression) == [type |-> "RETURN", expression |-> expression]

StatementFunction(identifier, argument_list, statement_list1, id) ==
    [type |-> "FUNCTION", identifier |-> identifier,
     argument_list |-> argument_list, statement_list1 |-> statement_list1,
     id |-> id]

(***************************************************************************)
(* evaluator.py: Value.  `data` of a NUMBER is the number, with `float`    *)
(* telling a Python float from a Python int; of a STRING the string, a     *)
(* sequence of characters; of a LIST the reference of the Python list in   *)
(* the heap; of a FUNCTION the StatementFunction; of a BUILTIN_FUNCTION    *)
(* the name of the operation.                                              *)
(***************************************************************************)
\* A Python string as the sequence of its characters, and back.
RECURSIVE Join(_)
Join(chars) == IF chars = <<>> THEN "" ELSE Head(chars) \o Join(Tail(chars))

Digit(d) == <<"0", "1", "2", "3", "4", "5", "6", "7", "8", "9">>[d + 1]

RECURSIVE Digits(_)
Digits(n) == IF n < 10 THEN <<Digit(n)>> ELSE Append(Digits(n \div 10), Digit(n % 10))

\* str() of a Python int.
IntChars(n) == IF n < 0 THEN <<"-">> \o Digits(-n) ELSE Digits(n)

ValueNumber(data, float) == [type |-> "NUMBER", data |-> data, float |-> float]

ValueString(data) == [type |-> "STRING", data |-> data]

ValueList(ref) == [type |-> "LIST", data |-> ref]

ValueNone == [type |-> "NONE"]

ValueFunction(statement) == [type |-> "FUNCTION", data |-> statement]

ValueBuiltinFunction(name) == [type |-> "BUILTIN_FUNCTION", data |-> name]

\* The None that a statement returns beside NEXT, BREAK or CONTINUE: Python's
\* None, not a Value.
PyNone == [type |-> "PyNone"]

boolean_value(data) ==
    IF data THEN ValueNumber(1, FALSE) ELSE ValueNumber(0, FALSE)

is_number(self) == self.type = "NUMBER"

is_string(self) == self.type = "STRING"

is_list(self) == self.type = "LIST"

is_none(self) == self.type = "NONE"

is_function(self) == self.type = "FUNCTION"

is_builtin_function(self) == self.type = "BUILTIN_FUNCTION"

is_true(self, h) ==
    CASE self.type = "NUMBER" -> self.data # 0
      [] self.type = "STRING" -> self.data # <<>>
      [] self.type = "LIST" -> h[self.data] # <<>>
      [] self.type = "NONE" -> FALSE
      [] self.type = "FUNCTION" -> TRUE
      [] self.type = "BUILTIN_FUNCTION" -> TRUE

(***************************************************************************)
(* Value.is_equal.  The result is "True", "False" or "RecursionError":     *)
(* the recursion over list items does not end when a pair of lists is      *)
(* reached again below itself, and Python then raises RecursionError.      *)
(* `path` is the set of pairs of list references under comparison.         *)
(***************************************************************************)
RECURSIVE is_equal_path(_, _, _, _)
RECURSIVE is_equal_items(_, _, _, _, _)

is_equal_items(a, b, i, h, path) ==
    IF i > Len(a) THEN "True"
    ELSE LET r == is_equal_path(a[i], b[i], h, path)
         IN  IF r = "True" THEN is_equal_items(a, b, i + 1, h, path) ELSE r

\* An equality that takes two lists of the same length for equal.
is_equal_path_by_length(self, other, h, path) ==
    IF self.type = "LIST" /\ other.type = "LIST"
    THEN IF Len(h[self.data]) = Len(h[other.data]) THEN "True" ELSE "False"
    ELSE IF self.type = "NONE" /\ other.type = "NONE" THEN "True"
    ELSE IF self.type = other.type /\ self.type # "NONE"
            /\ self.data = other.data
    THEN "True"
    ELSE "False"

is_equal_path(self, other, h, path) ==
    IF self.type = "NUMBER" /\ other.type = "NUMBER" /\ self.data = other.data
    THEN "True"
    ELSE IF self.type = "STRING" /\ other.type = "STRING"
            /\ self.data = other.data
    THEN "True"
    ELSE IF self.type = "NONE" /\ other.type = "NONE"
    THEN "True"
    ELSE IF self.type = "LIST" /\ other.type = "LIST"
    THEN IF Len(h[self.data]) # Len(h[other.data]) THEN "False"
         ELSE IF <<self.data, other.data>> \in path THEN "RecursionError"
         ELSE is_equal_items(h[self.data], h[other.data], 1, h,
                             path \cup {<<self.data, other.data>>})
    ELSE IF self.type = "FUNCTION" /\ other.type = "FUNCTION"
            /\ self.data.id = other.data.id
    THEN "True"
    ELSE IF self.type = "BUILTIN_FUNCTION" /\ other.type = "BUILTIN_FUNCTION"
            /\ self.data = other.data
    THEN "True"
    ELSE "False"

is_equal(self, other, h) == is_equal_path(self, other, h, {})

(***************************************************************************)
(* Exceptions.  An exception raised through DebugInfo.raise_exception has  *)
(* kind "Exception" and carries the message, the line number and the text  *)
(* of the line; an exception raised by Python itself has Python's kind.    *)
(***************************************************************************)
NoError == [kind |-> "none"]

PythonError(kind, message) == [kind |-> kind, message |-> message]

\* str.find('\n', start): the 0-based index of the first newline at or after
\* `start`, or -1.
find_newline(src, start) ==
    LET hits == {i \in 0 .. Len(src) - 1 : i >= start /\ src[i + 1] = "\n"}
    IN  IF hits = {} THEN -1
        ELSE CHOOSE i \in hits : \A j \in hits : i <= j

\* DebugInfo.raise_exception: in the branch of a line that no newline ends,
\* the attribute tokenizer.__source_length is name-mangled inside class
\* DebugInfo and does not exist.
raise_exception(src, debug_info, message) ==
    LET line_end == find_newline(src, debug_info.line_start_index)
    IN  IF line_end = -1
        THEN PythonError("AttributeError",
                 "'Tokenizer' object has no attribute '_DebugInfo__source_length'")
        ELSE [kind |-> "Exception", message |-> message,
              line_number |-> debug_info.line_number,
              line |-> SubSeq(src, debug_info.line_start_index + 1, line_end)]

(***************************************************************************)
(* Value.to_string.  The result is [error, string]; for a                  *)
(* BUILTIN_FUNCTION the code reads ValueType.BULITIN_FUNCTION, which does  *)
(* not exist, and a list reached again below itself never ends.            *)
(***************************************************************************)
RECURSIVE to_string_path(_, _, _)
RECURSIVE to_string_items(_, _, _, _, _)

to_string_items(items, i, h, path, acc) ==
    IF i > Len(items) THEN [error |-> NoError, string |-> acc \o <<"]">>]
    ELSE LET r == to_string_path(items[i], h, path)
         IN  IF r.error # NoError THEN r
             ELSE to_string_items(items, i + 1, h, path,
                      acc \o (IF i = 1 THEN <<>> ELSE <<",", " ">>) \o r.string)

to_string_path(self, h, path) ==
    CASE self.type = "NUMBER" ->
           [error |-> NoError,
            string |-> IntChars(self.data)
                       \o (IF self.float THEN <<".", "0">> ELSE <<>>)]
      [] self.type = "STRING" -> [error |-> NoError, string |-> self.data]
      [] self.type = "LIST" ->
           IF self.data \in path
           THEN [error |-> PythonError("RecursionError",
                               "maximum recursion depth exceeded"),
                 string |-> <<>>]
           ELSE to_string_items(h[self.data], 1, h, path \cup {self.data},
                                <<"[">>)
      [] self.type = "NONE" ->
           [error |-> NoError, string |-> <<"N", "o", "n", "e">>]
      [] self.type = "FUNCTION" ->
           [error |-> NoError,
            string |-> <<"F", "U", "N", "C", "T", "I", "O", "N">>]
      [] OTHER ->
           [error |-> PythonError("AttributeError", "BULITIN_FUNCTION"),
            string |-> <<>>]

to_string(self, h) == to_string_path(self, h, {})

(***************************************************************************)
(* The state an evaluation works on and the results it returns.            *)
(*   st = [variables, heap, source, fuel, trace]                           *)
(* An expression returns [st, value, error], a statement                   *)
(* [st, control_type, value, error]; error # NoError is a raised           *)
(* exception, which every caller passes on.                                *)
(***************************************************************************)
Ok(st, value) == [st |-> st, value |-> value, error |-> NoError]

Fail(st, err) == [st |-> st, value |-> ValueNone, error |-> err]

Control(st, control_type, value) ==
    [st |-> st, control_type |-> control_type, value |-> value,
     error |-> NoError]

ControlFail(st, err) ==
    [st |-> st, control_type |-> "NEXT", value |-> PyNone, error |-> err]

\* The model stops following an evaluation whose loops and calls use up the
\* fuel, and one whose float result is not an integer.
OutOfModel(what) == [kind |-> "OutOfModel", message |-> what]

Raise(st, debug_info, message) ==
    Fail(st, raise_exception(st.source, debug_info, message))

\* The trace of one top-level statement: which statements were entered and
\* left with which ControlType, which loop conditions were evaluated, which
\* names were looked up, which functions were called.
Log(st, event) == [st EXCEPT !.trace = Append(@, event)]

\* A new Python list.
Allocate(st, items) == [st EXCEPT !.heap = Append(@, items)]

\* A binding that stores a copy of a list instead of the list itself.
BindCopy(st, name, value) ==
    IF value.type = "LIST"
    THEN [st EXCEPT !.heap = Append(@, @[value.data]),
                    !.variables = (name :> ValueList(Len(st.heap) + 1)) @@ @]
    ELSE [st EXCEPT !.variables = (name :> value) @@ @]

\* A binding that leaves a name alone while a builtin function is bound
\* to it.
BindUnlessBuiltin(st, name, value) ==
    IF name \in DOMAIN st.variables
       /\ st.variables[name].type = "BUILTIN_FUNCTION"
    THEN st
    ELSE [st EXCEPT !.variables = (name :> value) @@ @]

\* self.__variables[name] = value: the name refers to the Value object.
Bind(st, name, value) ==
    [st EXCEPT !.variables = (name :> value) @@ @]

RECURSIVE RepeatSeq(_, _)
RepeatSeq(items, n) == IF n <= 0 THEN <<>> ELSE items \o RepeatSeq(items, n - 1)

\* Python's % on integers: the result has the sign of the divisor.
PyMod(a, b) == IF b > 0 THEN a % b ELSE -((-a) % (-b))

(***************************************************************************)
(* evaluator.py: the builtin functions.  Each takes the argument Values    *)
(* and the DebugInfo of the call.                                          *)
(***************************************************************************)
RECURSIVE print_items(_, _, _)
print_items(st, arguments, i) ==
    IF i > Len(arguments) THEN Ok(st, ValueNone)
    ELSE LET r == to_string(arguments[i], st.heap)
         IN  IF r.error # NoError THEN Fail(st, r.error)
             ELSE print_items(st, arguments, i + 1)

builtin_function_print(st, arguments, debug_info) ==
    print_items(st, arguments, 1)

builtin_function_assert(st, arguments, debug_info) ==
    IF Len(arguments) < 1 \/ 2 < Len(arguments)
    THEN Raise(st, debug_info,
               "assert() takes 1 or 2 arguments but " \o ToString(Len(arguments))
               \o " arguments provided.")
    ELSE IF ~is_true(arguments[1], st.heap)
    THEN IF Len(arguments) = 2
         THEN IF is_string(arguments[2])
              THEN Raise(st, debug_info,
                         "assert FAILED: " \o Join(arguments[2].data))
              ELSE Fail(st, PythonError("TypeError",
                                "can only concatenate str to str"))
         ELSE Raise(st, debug_info, "assert FAILED: ")
    ELSE Ok(st, ValueNone)

builtin_function_len(st, arguments, debug_info) ==
    IF Len(arguments) # 1
    THEN Raise(st, debug_info,
               "len() takes 1 argument but " \o ToString(Len(arguments))
               \o " arguments provided.")
    ELSE IF is_list(arguments[1])
    THEN Ok(st, ValueNumber(Len(st.heap[arguments[1].data]), FALSE))
    ELSE IF is_string(arguments[1])
    THEN Ok(st, ValueNumber(Len(arguments[1].data), FALSE))
    ELSE Raise(st, debug_info,
               "TypeError. len('" \o arguments[1].type
               \o "') cannot be evaluated.")

\* The strings int() converts are, in this model, the decimal numerals of
\* 0 .. MaxNumeral.
MaxNumeral == 20

builtin_function_int(st, arguments, debug_info) ==
    IF Len(arguments) # 1
    THEN Raise(st, debug_info,
               "int() takes 1 argument but " \o ToString(Len(arguments))
               \o " arguments provided.")
    ELSE IF is_number(arguments[1])
    THEN Ok(st, ValueNumber(arguments[1].data, FALSE))
    ELSE IF is_string(arguments[1])
    THEN IF \E n \in 0 .. MaxNumeral : Digits(n) = arguments[1].data
         THEN Ok(st, ValueNumber(
                  CHOOSE n \in 0 .. MaxNumeral : Digits(n) = arguments[1].data,
                  FALSE))
         ELSE Fail(st, PythonError("ValueError",
                           "invalid literal for int() with base 10"))
    ELSE Raise(st, debug_info,
               "TypeError. int('" \o arguments[1].type
               \o "') cannot be evaluated.")

builtin_function_str(st, arguments, debug_info) ==
    IF Len(arguments) # 1
    THEN Raise(st, debug_info,
               "str() takes 1 argument but " \o ToString(Len(arguments))
               \o " arguments provided.")
    ELSE LET r == to_string(arguments[1], st.heap)
         IN  IF r.error # NoError THEN Fail(st, r.error)
             ELSE Ok(st, ValueString(r.string))

builtin_function_sqrt(st, arguments, debug_info) ==
    IF Len(arguments) # 1
    THEN Raise(st, debug_info,
               "sqrt() takes 1 argument but " \o ToString(Len(arguments))
               \o " arguments provided.")
    ELSE IF is_number(arguments[1])
    THEN LET x == arguments[1].data
         IN  IF x < 0 THEN Fail(st, PythonError("ValueError", "math domain error"))
             ELSE IF \E r \in 0 .. x : r * r = x
             THEN Ok(st, ValueNumber(CHOOSE r \in 0 .. x : r * r = x, TRUE))
             ELSE Fail(st, OutOfModel("sqrt"))
    ELSE Raise(st, debug_info,
               "TypeError. sqrt('" \o arguments[1].type
               \o "') cannot be evaluated.")

builtin_function_append(st, arguments, debug_info) ==
    IF Len(arguments) # 2
    THEN Raise(st, debug_info,
               "append() takes 2 arguments but " \o ToString(Len(arguments))
               \o " arguments provided.")
    ELSE IF is_list(arguments[1])
    THEN Ok([st EXCEPT !.heap[arguments[1].data] = Append(@, arguments[2])],
            ValueNone)
    ELSE Raise(st, debug_info,
               "TypeError. append('" \o arguments[1].type
               \o "', ...) cannot be evaluated.")

\* function_value.data(arguments, expression.debug_info)
call_builtin_function(name, st, arguments, debug_info) ==
    CASE name = "print" -> builtin_function_print(st, arguments, debug_info)
      [] name = "assert" -> builtin_function_assert(st, arguments, debug_info)
      [] name = "len" -> builtin_function_len(st, arguments, debug_info)
      [] name = "int" -> builtin_function_int(st, arguments, debug_info)
      [] name = "str" -> builtin_function_str(st, arguments, debug_info)
      [] name = "sqrt" -> builtin_function_sqrt(st, arguments, debug_info)
      [] name = "append" -> builtin_function_append(st, arguments, debug_info)

BuiltinNames == {"print", "assert", "len", "int", "str", "sqrt", "append"}

\* Evaluator.__init__: the variables after __install_builtin_functions.
install_builtin_functions ==
    [name \in BuiltinNames |-> ValueBuiltinFunction(name)]

(***************************************************************************)
(* evaluator.py: __evaluate_expression_binary, after both operands have    *)
(* been evaluated.                                                         *)
(***************************************************************************)
TypeErrorMessage(operator, value1, value2) ==
    "Type error. '" \o value1.type \o "' " \o operator \o " '" \o value2.type
    \o "' cannot be evaluated."

SequenceByFloat ==
    PythonError("TypeError", "can't multiply sequence by non-int of type 'float'")

binary_multiply(expression, value1, value2, st) ==
    IF is_number(value1) /\ is_number(value2)
    THEN Ok(st, ValueNumber(value1.data * value2.data,
                            value1.float \/ value2.float))
    ELSE IF is_number(value1) /\ is_string(value2)
    THEN IF value1.float THEN Fail(st, SequenceByFloat)
         ELSE Ok(st, ValueString(RepeatSeq(value2.data, value1.data)))
    ELSE IF is_string(value1) /\ is_number(value2)
    THEN IF value2.float THEN Fail(st, SequenceByFloat)
         ELSE Ok(st, ValueString(RepeatSeq(value1.data, value2.data)))
    ELSE IF is_number(value1) /\ is_list(value2)
    THEN IF value1.float THEN Fail(st, SequenceByFloat)
         ELSE LET st1 == Allocate(st, RepeatSeq(st.heap[value2.data], value1.data))
              IN  Ok(st1, ValueList(Len(st1.heap)))
    ELSE IF is_list(value1) /\ is_number(value2)
    THEN IF value2.float THEN Fail(st, SequenceByFloat)
         ELSE LET st1 == Allocate(st, RepeatSeq(st.heap[value1.data], value2.data))
              IN  Ok(st1, ValueList(Len(st1.heap)))
    ELSE Raise(st, expression.debug_info,
               TypeErrorMessage("*", value1, value2))

binary_divide(expression, value1, value2, st) ==
    IF is_number(value1) /\ is_number(value2)
    THEN IF value2.data = 0
         THEN Fail(st, PythonError("ZeroDivisionError", "division by zero"))
         ELSE LET q == IF value2.data > 0
                       THEN value1.data \div value2.data
                       ELSE (-value1.data) \div (-value2.data)
              IN  IF q * value2.data = value1.data
                  THEN Ok(st, ValueNumber(q, TRUE))
                  ELSE Fail(st, OutOfModel("/"))
    ELSE Raise(st, expression.debug_info,
               TypeErrorMessage("/", value1, value2))

\* The format string of the MOD type error holds "\%", which Python's %
\* formatting rejects.
binary_mod(expression, value1, value2, st) ==
    IF is_number(value1) /\ is_number(value2)
    THEN IF value2.data = 0
         THEN Fail(st, PythonError("ZeroDivisionError", "modulo by zero"))
         ELSE Ok(st, ValueNumber(PyMod(value1.data, value2.data),
                                 value1.float \/ value2.float))
    ELSE Fail(st, PythonError("ValueError", "unsupported format character"))

\* A List + List that returns the other operand when one operand is empty.
binary_plus_reuse(expression, value1, value2, st) ==
    IF is_number(value1) /\ is_number(value2)
    THEN Ok(st, ValueNumber(value1.data + value2.data,
                            value1.float \/ value2.float))
    ELSE IF is_string(value1) /\ is_string(value2)
    THEN Ok(st, ValueString(value1.data \o value2.data))
    ELSE IF is_list(value1) /\ is_list(value2)
    THEN IF st.heap[value1.data] = <<>> THEN Ok(st, value2)
         ELSE IF st.heap[value2.data] = <<>> THEN Ok(st, value1)
         ELSE LET st1 == Allocate(st, st.heap[value1.data] \o st.heap[value2.data])
              IN  Ok(st1, ValueList(Len(st1.heap)))
    ELSE Raise(st, expression.debug_info,
               TypeErrorMessage("+", value1, value2))

binary_plus(expression, value1, value2, st) ==
    IF is_number(value1) /\ is_number(value2)
    THEN Ok(st, ValueNumber(value1.data + value2.data,
                            value1.float \/ value2.float))
    ELSE IF is_string(value1) /\ is_string(value2)
    THEN Ok(st, ValueString(value1.data \o value2.data))
    ELSE IF is_list(value1) /\ is_list(value2)
    THEN LET st1 == Allocate(st, st.heap[value1.data] \o st.heap[value2.data])
         IN  Ok(st1, ValueList(Len(st1.heap)))
    ELSE Raise(st, expression.debug_info,
               TypeErrorMessage("+", value1, value2))

binary_minus(expression, value1, value2, st) ==
    IF is_number(value1) /\ is_number(value2)
    THEN Ok(st, ValueNumber(value1.data - value2.data,
                            value1.float \/ value2.float))
    ELSE Raise(st, expression.debug_info,
               TypeErrorMessage("-", value1, value2))

binary_compare(expression, value1, value2, st) ==
    LET operator == expression.token.type
    IN  IF is_number(value1) /\ is_number(value2)
        THEN Ok(st, boolean_value(
                 CASE operator = "<" -> value1.data < value2.data
                   [] operator = ">" -> value1.data > value2.data
                   [] operator = "<=" -> value1.data <= value2.data
                   [] operator = ">=" -> value1.data >= value2.data))
        ELSE Raise(st, expression.debug_info,
                   TypeErrorMessage(operator, value1, value2))

binary_equal(expression, value1, value2, st) ==
    LET r == is_equal(value1, value2, st.heap)
    IN  IF r = "RecursionError"
        THEN Fail(st, PythonError("RecursionError",
                          "maximum recursion depth exceeded"))
        ELSE IF expression.token.type = "=="
        THEN Ok(st, boolean_value(r = "True"))
        ELSE Ok(st, boolean_value(~(r = "True")))

binary_operation(expression, value1, value2, st) ==
    LET operator == expression.token.type
    IN  CASE operator = "*" -> binary_multiply(expression, value1, value2, st)
          [] operator = "/" -> binary_divide(expression, value1, value2, st)
          [] operator = "%" -> binary_mod(expression, value1, value2, st)
          [] operator = "+" -> binary_plus(expression, value1, value2, st)
          [] operator = "-" -> binary_minus(expression, value1, value2, st)
          [] operator \in {"<", ">", "<=", ">="} ->
               binary_compare(expression, value1, value2, st)
          [] operator \in {"==", "!="} ->
               binary_equal(expression, value1, value2, st)

(***************************************************************************)
(* evaluator.py: Evaluator.__evaluate_expression* and                      *)
(* __evaluate_statement*.  A method that evaluates several operands in     *)
(* turn is written in stages: each stage receives the result of the        *)
(* evaluation before it, returns it when it holds an exception, and        *)
(* otherwise goes on as the method does.                                   *)
(***************************************************************************)
RECURSIVE evaluate_expression(_, _)
RECURSIVE evaluate_expressions(_, _, _, _)
RECURSIVE evaluate_statement(_, _)
RECURSIVE evaluate_statement_list(_, _, _)
RECURSIVE while_loop(_, _)
RECURSIVE call_body(_, _, _)

\* Checks of list[index] = <expression> that accept the index len(list) and
\* add the value at the end of the list.
subscription_store_grow(expression, list_value, index_value, result_value, st) ==
    IF is_list(list_value) /\ is_number(index_value)
    THEN IF ~index_value.float /\ 0 <= index_value.data
            /\ index_value.data < Len(st.heap[list_value.data])
         THEN Ok([st EXCEPT !.heap[list_value.data][index_value.data + 1] =
                                result_value],
                 result_value)
         ELSE IF ~index_value.float
                 /\ index_value.data = Len(st.heap[list_value.data])
         THEN Ok([st EXCEPT !.heap[list_value.data] = Append(@, result_value)],
                 result_value)
         ELSE Raise(st, expression.debug_info,
                    "Index '" \o ToString(index_value.data)
                    \o "' is out of range.")
    ELSE Raise(st, expression.debug_info,
               "Type error. '" \o list_value.type \o "'['" \o index_value.type
               \o "'] cannot be evaluated.")

\* The checks of list[index] = <expression>, after the three evaluations.
subscription_store(expression, list_value, index_value, result_value, st) ==
    IF is_list(list_value) /\ is_number(index_value)
    THEN IF ~index_value.float /\ 0 <= index_value.data
            /\ index_value.data < Len(st.heap[list_value.data])
         THEN Ok([st EXCEPT !.heap[list_value.data][index_value.data + 1] =
                                result_value],
                 result_value)
         ELSE Raise(st, expression.debug_info,
                    "Index '" \o ToString(index_value.data)
                    \o "' is out of range.")
    ELSE Raise(st, expression.debug_info,
               "Type error. '" \o list_value.type \o "'['" \o index_value.type
               \o "'] cannot be evaluated.")

\* An assignment to list[index] that checks list and index before it
\* evaluates the right-hand side.
evaluate_expression_assignment_checked(expression, st) ==
    LET \* self.__variables[identifier] = value; return value
        bind(r) ==
            IF r.error # NoError THEN r
            ELSE Ok(Bind(r.st, expression.expression1.token.value, r.value),
                    r.value)
        store(r1, r2, r3) ==
            IF r3.error # NoError THEN r3
            ELSE subscription_store(expression, r1.value, r2.value, r3.value,
                                    r3.st)
        checked(r1, r2, probe) ==
            IF probe.error # NoError THEN probe
            ELSE store(r1, r2, evaluate_expression(expression.expression2, r2.st))
        right(r1, r2) ==
            IF r2.error # NoError THEN r2
            ELSE checked(r1, r2, subscription_store(expression, r1.value,
                                                    r2.value, ValueNone, r2.st))
        subscript(r1) ==
            IF r1.error # NoError THEN r1
            ELSE right(r1, evaluate_expression(
                               expression.expression1.expression2, r1.st))
    IN  IF expression.expression1.type = "IDENTIFIER"
        THEN bind(evaluate_expression(expression.expression2, st))
        ELSE IF expression.expression1.type = "SUBSCRIPTION"
        THEN subscript(evaluate_expression(
                           expression.expression1.expression1, st))
        ELSE Raise(st, expression.debug_info,
                   "Invalid assignment. The left side of the assignment must "
                   \o "be an identifier or a subscription.")

evaluate_expression_assignment(expression, st) ==
    LET \* self.__variables[identifier] = value; return value
        bind(r) ==
            IF r.error # NoError THEN r
            ELSE Ok(Bind(r.st, expression.expression1.token.value, r.value),
                    r.value)
        store(r1, r2, r3) ==
            IF r3.error # NoError THEN r3
            ELSE subscription_store(expression, r1.value, r2.value, r3.value,
                                    r3.st)
        right(r1, r2) ==
            IF r2.error # NoError THEN r2
            ELSE store(r1, r2, evaluate_expression(expression.expression2, r2.st))
        subscript(r1) ==
            IF r1.error # NoError THEN r1
            ELSE right(r1, evaluate_expression(
                               expression.expression1.expression2, r1.st))
    IN  IF expression.expression1.type = "IDENTIFIER"
        THEN bind(evaluate_expression(expression.expression2, st))
        ELSE IF expression.expression1.type = "SUBSCRIPTION"
        THEN subscript(evaluate_expression(
                           expression.expression1.expression1, st))
        ELSE Raise(st, expression.debug_info,
                   "Invalid assignment. The left side of the assignment must "
                   \o "be an identifier or a subscription.")

\* An and/or that evaluates both operands before it looks at the left one.
evaluate_expression_andor_eager(expression, st) ==
    LET right(r1, r2) ==
            IF r2.error # NoError THEN r2
            ELSE IF expression.token.type = "and"
            THEN Ok(r2.st, boolean_value(is_true(r1.value, r2.st.heap)
                                         /\ is_true(r2.value, r2.st.heap)))
            ELSE Ok(r2.st, boolean_value(is_true(r1.value, r2.st.heap)
                                         \/ is_true(r2.value, r2.st.heap)))
        left(r1) ==
            IF r1.error # NoError THEN r1
            ELSE right(r1, evaluate_expression(expression.expression2, r1.st))
    IN  left(evaluate_expression(expression.expression1, st))

evaluate_expression_andor(expression, st) ==
    LET \* return Value.boolean_value(value2.is_true())
        right(r2) ==
            IF r2.error # NoError THEN r2
            ELSE Ok(r2.st, boolean_value(is_true(r2.value, r2.st.heap)))
        left(r1) ==
            IF r1.error # NoError THEN r1
            ELSE IF expression.token.type = "and"
            THEN IF ~is_true(r1.value, r1.st.heap)
                 THEN Ok(r1.st, boolean_value(FALSE))
                 ELSE right(evaluate_expression(expression.expression2, r1.st))
            ELSE IF is_true(r1.value, r1.st.heap)
                 THEN Ok(r1.st, boolean_value(TRUE))
                 ELSE right(evaluate_expression(expression.expression2, r1.st))
    IN  left(evaluate_expression(expression.expression1, st))

evaluate_expression_binary(expression, st) ==
    LET right(r1, r2) ==
            IF r2.error # NoError THEN r2
            ELSE binary_operation(expression, r1.value, r2.value, r2.st)
        left(r1) ==
            IF r1.error # NoError THEN r1
            ELSE right(r1, evaluate_expression(expression.expression2, r1.st))
    IN  left(evaluate_expression(expression.expression1, st))

evaluate_expression_unary(expression, st) ==
    LET negate(r) ==
            IF r.error # NoError THEN r
            ELSE IF is_number(r.value)
            THEN Ok(r.st, ValueNumber(-r.value.data, r.value.float))
            ELSE Raise(r.st, expression.debug_info,
                       "Type error. -'" \o r.value.type
                       \o "' cannot be evaluated")
    IN  negate(evaluate_expression(expression.expression1, st))

evaluate_expression_value(expression, st) ==
    CASE expression.token.type = "number" ->
           Ok(st, ValueNumber(expression.token.value, expression.token.float))
      [] expression.token.type = "string" ->
           Ok(st, ValueString(expression.token.value))
      [] expression.token.type = "None" -> Ok(st, ValueNone)

\* The trace records the lookup of the name in self.__variables.
evaluate_expression_identifier(expression, st) ==
    LET looked(st1) ==
            IF expression.token.value \in DOMAIN st1.variables
            THEN Ok(st1, st1.variables[expression.token.value])
            ELSE Raise(st1, expression.debug_info,
                       "Undefined variable. '" \o expression.token.value
                       \o "' is not defined.")
    IN  looked(Log(st, [ev |-> "lookup", name |-> expression.token.value]))

\* for e in expression_list: values.append(evaluate(e))
evaluate_expressions(expression_list, i, st, values) ==
    LET next(r) ==
            IF r.error # NoError
            THEN [st |-> r.st, values |-> values, error |-> r.error]
            ELSE evaluate_expressions(expression_list, i + 1, r.st,
                                      Append(values, r.value))
    IN  IF i > Len(expression_list)
        THEN [st |-> st, values |-> values, error |-> NoError]
        ELSE next(evaluate_expression(expression_list[i], st))

\* return Value(ValueType.LIST, values): a new Python list.
evaluate_expression_list(expression, st) ==
    LET allocated(st1) == Ok(st1, ValueList(Len(st1.heap)))
        build(r) ==
            IF r.error # NoError THEN Fail(r.st, r.error)
            ELSE allocated(Allocate(r.st, r.values))
    IN  build(evaluate_expressions(expression.expression_list, 1, st, <<>>))

\* A subscription that returns a copy of an item that is a List.
subscription_load_copy(expression, value1, value2, st) ==
    IF is_list(value1) /\ is_number(value2)
    THEN IF ~value2.float /\ 0 <= value2.data
            /\ value2.data < Len(st.heap[value1.data])
         THEN LET item == st.heap[value1.data][value2.data + 1]
                  st1 == Allocate(st, st.heap[item.data])
              IN  IF is_list(item) THEN Ok(st1, ValueList(Len(st1.heap)))
                  ELSE Ok(st, item)
         ELSE Raise(st, expression.debug_info,
                    "Index '" \o ToString(value2.data) \o "' is out of range.")
    ELSE IF is_string(value1) /\ is_number(value2)
    THEN IF ~value2.float /\ 0 <= value2.data
            /\ value2.data < Len(value1.data)
         THEN Ok(st, ValueString(<<value1.data[value2.data + 1]>>))
         ELSE Raise(st, expression.debug_info,
                    "Index '" \o ToString(value2.data) \o "' is out of range.")
    ELSE Raise(st, expression.debug_info,
               "Type error. '" \o value1.type \o "'['" \o value2.type
               \o "'] cannot be evaluated.")

\* The checks of a subscription, after both evaluations.
subscription_load(expression, value1, value2, st) ==
    IF is_list(value1) /\ is_number(value2)
    THEN IF ~value2.float /\ 0 <= value2.data
            /\ value2.data < Len(st.heap[value1.data])
         THEN Ok(st, st.heap[value1.data][value2.data + 1])
         ELSE Raise(st, expression.debug_info,
                    "Index '" \o ToString(value2.data) \o "' is out of range.")
    ELSE IF is_string(value1) /\ is_number(value2)
    THEN IF ~value2.float /\ 0 <= value2.data
            /\ value2.data < Len(value1.data)
         THEN Ok(st, ValueString(<<value1.data[value2.data + 1]>>))
         ELSE Raise(st, expression.debug_info,
                    "Index '" \o ToString(value2.data) \o "' is out of range.")
    ELSE Raise(st, expression.debug_info,
               "Type error. '" \o value1.type \o "'['" \o value2.type
               \o "'] cannot be evaluated.")

evaluate_expression_subscription(expression, st) ==
    LET right(r1, r2) ==
            IF r2.error # NoError THEN r2
            ELSE subscription_load(expression, r1.value, r2.value, r2.st)
        left(r1) ==
            IF r1.error # NoError THEN r1
            ELSE right(r1, evaluate_expression(expression.expression2, r1.st))
    IN  left(evaluate_expression(expression.expression1, st))

\* for i in range(len(arguments)): variables[argument_list[i]] = arguments[i]
RECURSIVE bind_arguments(_, _, _, _)
bind_arguments(st, argument_list, arguments, i) ==
    IF i > Len(arguments) THEN st
    ELSE bind_arguments(Bind(st, argument_list[i].token.value, arguments[i]),
                        argument_list, arguments, i + 1)

\* The loop over the function body in __evaluate_expression_call.  The
\* message of a BREAK or CONTINUE that reaches it names `identifier`, a
\* variable that does not exist.
call_body(statement, i, st) ==
    LET next(r) ==
            IF r.error # NoError THEN Fail(r.st, r.error)
            ELSE IF r.control_type = "RETURN"
            THEN Ok(Log(r.st, [ev |-> "return", function |-> statement.id,
                               name |-> statement.identifier.token.value,
                               value |-> r.value]),
                    r.value)
            ELSE IF r.control_type # "NEXT"
            THEN Fail(r.st, PythonError("NameError",
                                "name 'identifier' is not defined"))
            ELSE call_body(statement, i + 1, r.st)
    IN  IF i > Len(statement.statement_list1)
        THEN Ok(Log(st, [ev |-> "return", function |-> statement.id,
                         name |-> statement.identifier.token.value,
                         value |-> ValueNone]),
                ValueNone)
        ELSE next(evaluate_statement(statement.statement_list1[i], st))

\* A call that gives the parameter names their earlier bindings back when
\* it returns.
call_function_scoped(expression, function_value, arguments, st) ==
    LET parameters ==
            IF is_function(function_value)
            THEN {function_value.data.argument_list[i].token.value :
                    i \in DOMAIN function_value.data.argument_list}
            ELSE {}
        restore(r) ==
            [r EXCEPT !.st.variables =
                [name \in DOMAIN @ \ (parameters \ DOMAIN st.variables) |->
                    IF name \in parameters THEN st.variables[name]
                    ELSE @[name]]]
    IN  IF is_builtin_function(function_value)
        THEN call_builtin_function(function_value.data, st, arguments,
                                   expression.debug_info)
        ELSE IF is_function(function_value)
        THEN IF Len(arguments) # Len(function_value.data.argument_list)
             THEN Fail(st, PythonError("TypeError",
                               "%d format: a real number is required, not str"))
             ELSE IF st.fuel = 0 THEN Fail(st, OutOfModel("fuel"))
             ELSE restore(call_body(function_value.data, 1,
                      Log(bind_arguments([st EXCEPT !.fuel = @ - 1],
                                         function_value.data.argument_list,
                                         arguments, 1),
                          [ev |-> "call", function |-> function_value.data.id,
                           name |-> function_value.data.identifier.token.value,
                           parameters |->
                               [i \in DOMAIN function_value.data.argument_list
                                   |-> function_value.data.argument_list[i]
                                           .token.value],
                           arguments |-> arguments])))
        ELSE Fail(st, PythonError("UnboundLocalError",
                     "local variable 'statement' referenced before assignment"))

\* __evaluate_expression_call once the callee and the arguments are
\* evaluated.  With a callee that is no function the local `statement` is
\* read unassigned; the arity message applies % to its last piece only.
call_function(expression, function_value, arguments, st) ==
    IF is_builtin_function(function_value)
    THEN call_builtin_function(function_value.data, st, arguments,
                               expression.debug_info)
    ELSE IF is_function(function_value)
    THEN IF Len(arguments) # Len(function_value.data.argument_list)
         THEN Fail(st, PythonError("TypeError",
                           "%d format: a real number is required, not str"))
         ELSE IF st.fuel = 0 THEN Fail(st, OutOfModel("fuel"))
         ELSE call_body(function_value.data, 1,
                  Log(bind_arguments([st EXCEPT !.fuel = @ - 1],
                                     function_value.data.argument_list,
                                     arguments, 1),
                      [ev |-> "call", function |-> function_value.data.id,
                       name |-> function_value.data.identifier.token.value,
                       parameters |->
                           [i \in DOMAIN function_value.data.argument_list |->
                               function_value.data.argument_list[i].token.value],
                       arguments |-> arguments]))
    ELSE Fail(st, PythonError("UnboundLocalError",
                      "local variable 'statement' referenced before assignment"))

evaluate_expression_call(expression, st) ==
    LET call(r, a) ==
            IF a.error # NoError THEN Fail(a.st, a.error)
            ELSE call_function(expression, r.value, a.values, a.st)
        callee(r) ==
            IF r.error # NoError THEN r
            ELSE call(r, evaluate_expressions(expression.expression_list, 1,
                                              r.st, <<>>))
    IN  callee(evaluate_expression(expression.expression1, st))

evaluate_expression(expression, st) ==
    CASE expression.type = "ASSIGNMENT" ->
           evaluate_expression_assignment(expression, st)
      [] expression.type = "ANDOR" -> evaluate_expression_andor(expression, st)
      [] expression.type = "BINARY" -> evaluate_expression_binary(expression, st)
      [] expression.type = "UNARY" -> evaluate_expression_unary(expression, st)
      [] expression.type = "LITERAL" -> evaluate_expression_value(expression, st)
      [] expression.type = "IDENTIFIER" ->
           evaluate_expression_identifier(expression, st)
      [] expression.type = "LIST" -> evaluate_expression_list(expression, st)
      [] expression.type = "SUBSCRIPTION" ->
           evaluate_expression_subscription(expression, st)
      [] expression.type = "CALL" -> evaluate_expression_call(expression, st)

evaluate_statement_expression(statement, st) ==
    LET \* return (ControlType.NEXT, value)
        done(r) ==
            IF r.error # NoError THEN ControlFail(r.st, r.error)
            ELSE Control(r.st, "NEXT", r.value)
    IN  done(evaluate_expression(statement.expression, st))

evaluate_statement_none(statement, st) == Control(st, "NEXT", PyNone)

\* An if that goes on with its else-block when its then-block has ended
\* with NEXT.
evaluate_statement_if_falls(statement, st) ==
    LET otherwise(st1) ==
            IF ~statement.statement_list2.none
               /\ statement.statement_list2.list # <<>>
            THEN evaluate_statement_list(statement.statement_list2.list, 1, st1)
            ELSE Control(st1, "NEXT", PyNone)
        then(r1) ==
            IF r1.error # NoError \/ r1.control_type # "NEXT" THEN r1
            ELSE otherwise(r1.st)
        branch(r) ==
            IF r.error # NoError THEN ControlFail(r.st, r.error)
            ELSE IF is_true(r.value, r.st.heap)
            THEN then(evaluate_statement_list(statement.statement_list1, 1,
                                              r.st))
            ELSE otherwise(r.st)
    IN  branch(evaluate_expression(statement.expression, st))

\* `if statement.statement_list2:` is false for None and for an empty list.
evaluate_statement_if(statement, st) ==
    LET branch(r) ==
            IF r.error # NoError THEN ControlFail(r.st, r.error)
            ELSE IF is_true(r.value, r.st.heap)
            THEN evaluate_statement_list(statement.statement_list1, 1, r.st)
            ELSE IF ~statement.statement_list2.none
                    /\ statement.statement_list2.list # <<>>
            THEN evaluate_statement_list(statement.statement_list2.list, 1,
                                         r.st)
            ELSE Control(r.st, "NEXT", PyNone)
    IN  branch(evaluate_expression(statement.expression, st))

\* A loop that hands the BREAK of its body on to the enclosing construct.
while_loop_break_escapes(statement, st) ==
    LET after(b) ==
            IF b.error # NoError THEN b
            ELSE IF b.control_type \in {"BREAK", "RETURN"} THEN b
            ELSE while_loop(statement, b.st)
        body(truth, st1) ==
            IF ~truth THEN Control(st1, "NEXT", PyNone)
            ELSE IF st1.fuel = 0 THEN ControlFail(st1, OutOfModel("fuel"))
            ELSE after(evaluate_statement_list(statement.statement_list1, 1,
                                               [st1 EXCEPT !.fuel = @ - 1]))
        condition(r) ==
            IF r.error # NoError THEN ControlFail(r.st, r.error)
            ELSE body(is_true(r.value, r.st.heap),
                      Log(r.st, [ev |-> "condition", statement |-> statement,
                                 truth |-> is_true(r.value, r.st.heap)]))
    IN  condition(evaluate_expression(statement.expression, st))

\* One turn of `while True:` in __evaluate_statement_while.  The trace
\* records each evaluation of the condition and its truth.
while_loop(statement, st) ==
    LET \* What the loop does with the ControlType of its body.
        after(b) ==
            IF b.error # NoError THEN b
            ELSE IF b.control_type = "BREAK" THEN Control(b.st, "NEXT", PyNone)
            ELSE IF b.control_type = "RETURN"
            THEN Control(b.st, "RETURN", b.value)
            ELSE while_loop(statement, b.st)
        \* if not value.is_true(): return (ControlType.NEXT, None)
        body(truth, st1) ==
            IF ~truth THEN Control(st1, "NEXT", PyNone)
            ELSE IF st1.fuel = 0 THEN ControlFail(st1, OutOfModel("fuel"))
            ELSE after(evaluate_statement_list(statement.statement_list1, 1,
                                               [st1 EXCEPT !.fuel = @ - 1]))
        condition(r) ==
            IF r.error # NoError THEN ControlFail(r.st, r.error)
            ELSE body(is_true(r.value, r.st.heap),
                      Log(r.st, [ev |-> "condition", statement |-> statement,
                                 truth |-> is_true(r.value, r.st.heap)]))
    IN  condition(evaluate_expression(statement.expression, st))

evaluate_statement_while(statement, st) == while_loop(statement, st)

evaluate_statement_break(statement, st) == Control(st, "BREAK", PyNone)

evaluate_statement_continue(statement, st) == Control(st, "CONTINUE", PyNone)

evaluate_statement_return(statement, st) ==
    LET returned(r) ==
            IF r.error # NoError THEN ControlFail(r.st, r.error)
            ELSE Control(r.st, "RETURN", r.value)
    IN  IF statement.expression # Null
        THEN returned(evaluate_expression(statement.expression, st))
        ELSE Control(st, "RETURN", ValueNone)

evaluate_statement_function(statement, st) ==
    Control(Bind(st, statement.identifier.token.value, ValueFunction(statement)),
            "NEXT", PyNone)

evaluate_statement_dispatch(statement, st) ==
    CASE statement.type = "NONE" -> evaluate_statement_none(statement, st)
      [] statement.type = "EXPRESSION" ->
           evaluate_statement_expression(statement, st)
      [] statement.type = "IF" -> evaluate_statement_if(statement, st)
      [] statement.type = "WHILE" -> evaluate_statement_while(statement, st)
      [] statement.type = "BREAK" -> evaluate_statement_break(statement, st)
      [] statement.type = "CONTINUE" ->
           evaluate_statement_continue(statement, st)
      [] statement.type = "RETURN" -> evaluate_statement_return(statement, st)
      [] statement.type = "FUNCTION" ->
           evaluate_statement_function(statement, st)

\* The trace records that __evaluate_statement was entered for a statement
\* and, when it returns, the (ControlType, value) pair it returns.
evaluate_statement(statement, st) ==
    LET exit(r) ==
            IF r.error # NoError THEN r
            ELSE [r EXCEPT !.st = Log(@, [ev |-> "exit",
                                          statement |-> statement,
                                          control_type |-> r.control_type,
                                          value |-> r.value])]
    IN  exit(evaluate_statement_dispatch(
                 statement, Log(st, [ev |-> "enter", statement |-> statement])))

\* A statement list that goes on with its next statement after a RETURN.
evaluate_statement_list_past_return(statement_list, i, st) ==
    LET next(r) ==
            IF r.error # NoError THEN r
            ELSE IF r.control_type \in {"BREAK", "CONTINUE"} THEN r
            ELSE evaluate_statement_list(statement_list, i + 1, r.st)
    IN  IF i > Len(statement_list) THEN Control(st, "NEXT", PyNone)
        ELSE next(evaluate_statement(statement_list[i], st))

evaluate_statement_list(statement_list, i, st) ==
    LET \* if control_type != ControlType.NEXT: return (control_type, value)
        next(r) ==
            IF r.error # NoError THEN r
            ELSE IF r.control_type # "NEXT" THEN r
            ELSE evaluate_statement_list(statement_list, i + 1, r.st)
    IN  IF i > Len(statement_list) THEN Control(st, "NEXT", PyNone)
        ELSE next(evaluate_statement(statement_list[i], st))

(***************************************************************************)
(* evaluator.py: Evaluator.__evaluate_program, one turn of its loop.  The  *)
(* statement works on the single global environment; whatever it changed   *)
(* before an exception stays changed.                                      *)
(***************************************************************************)
NoLast ==
    [statement |-> StatementNone, control_type |-> "NEXT", value |-> PyNone,
     error |-> NoError, trace |-> <<>>,
     before |-> [variables |-> install_builtin_functions, heap |-> <<>>]]

EvaluationState ==
    [variables |-> variables, heap |-> heap, source |-> source,
     fuel |-> MaxFuel, trace |-> <<>>]

TopLevelError(control_type) ==
    PythonError("Exception", control_type \o " was returned to the top level.")

\* A top level that accepts every ControlType.
evaluate_program_step_lenient(statement, st) == evaluate_statement(statement, st)

\* if control_type != ControlType.NEXT: raise Exception(...)
evaluate_program_step(statement, st) ==
    LET done(r) ==
            [r EXCEPT !.error = IF r.error # NoError THEN r.error
                                ELSE IF r.control_type # "NEXT"
                                THEN TopLevelError(r.control_type)
                                ELSE NoError]
    IN  done(evaluate_statement(statement, st))

EvaluateProgram ==
    LET taken(statement, r) ==
            /\ variables' = r.st.variables
            /\ heap' = r.st.heap
            /\ error' = r.error
            /\ last' = [statement |-> statement,
                        control_type |-> r.control_type,
                        value |-> r.value, error |-> r.error,
                        trace |-> r.st.trace,
                        before |-> [variables |-> variables, heap |-> heap]]
            /\ index' = index + 1
            /\ pc' = IF r.error.kind = "OutOfModel" THEN "cutoff"
                     ELSE IF r.error # NoError THEN "failed"
                     ELSE IF index + 1 = Len(program) THEN "done"
                     ELSE "evaluate"
    IN  /\ pc = "evaluate"
        /\ index < Len(program)
        /\ taken(program[index + 1],
                 evaluate_program_step(program[index + 1], EvaluationState))
        /\ UNCHANGED <<source, program, printed, reparsed, tokenizer, tokens,
                       current_token>>

\* Tokenizer.__init__: a tokenizer state holds __index, line_start_index
\* and line_number.
Tokenizer == [index |-> 0, line_start_index |-> 0, line_number |-> 1]

\* Python's None where read_token returns no Token.
NoToken == [type |-> "NoneType"]

\* Program.print() has not run; the printed text has not been parsed.
NotPrinted == [done |-> FALSE]

NotParsed == [done |-> FALSE]

\* Evaluator().evaluate(program) on a Program whose nodes all carry the
\* DebugInfo of line 1.
InitEvaluator(programs, sources) ==
    /\ source \in sources
    /\ program \in programs
    /\ pc = "evaluate"
    /\ index = 0
    /\ variables = install_builtin_functions
    /\ heap = <<>>
    /\ error = NoError
    /\ last = NoLast
    /\ printed = NotPrinted
    /\ reparsed = NotParsed
    /\ tokenizer = Tokenizer
    /\ tokens = <<>>
    /\ current_token = NoToken

NextEvaluator == EvaluateProgram

(***************************************************************************)
(* tokenizer.py: Tokenizer.  `src` is Tokenizer.source; a tokenizer state  *)
(* t holds __index, line_start_index and line_number.  Python indexes the  *)
(* source from 0, a sequence here starts at 1: source[i] is src[i + 1].    *)
(***************************************************************************)
\* The IDENTIFIER token that read_token makes: its value is the identifier
\* as a name, and `text` keeps the characters of that same string.
TokenIdentifierText(text) ==
    [type |-> "identifier", value |-> Join(text), text |-> text]

\* str.isalpha() and str.isdigit() on the characters of the model.
Letters ==
    {"a", "b", "c", "d", "e", "f", "g", "h", "i", "j", "k", "l", "m", "n", "o",
     "p", "q", "r", "s", "t", "u", "v", "w", "x", "y", "z", "A", "B", "C", "D",
     "E", "F", "G", "H", "I", "J", "K", "L", "M", "N", "O", "P", "Q", "R", "S",
     "T", "U", "V", "W", "X", "Y", "Z"}

DigitCharacters == {Digit(d) : d \in 0 .. 9}

\* int(character)
DigitValue(character) == CHOOSE d \in 0 .. 9 : Digit(d) = character

\* An order that tries the one-character operators first.
OperatorTableOneFirst ==
    << <<"(">>, <<")">>, <<"[">>, <<"]">>, <<"{">>, <<"}">>, <<"*">>, <<"/">>,
       <<"%">>, <<"+">>, <<"-">>, <<"<">>, <<">">>, <<"=">>, <<",">>, <<";">>,
       <<"<", "=">>, <<">", "=">>, <<"=", "=">>, <<"!", "=">> >>

\* The operators in the order in which read_token tries them.
OperatorTable ==
    << <<"<", "=">>, <<">", "=">>, <<"=", "=">>, <<"!", "=">>, <<"(">>,
       <<")">>, <<"[">>, <<"]">>, <<"{">>, <<"}">>, <<"*">>, <<"/">>, <<"%">>,
       <<"+">>, <<"-">>, <<"<">>, <<">">>, <<"=">>, <<",">>, <<";">> >>

\* The identifiers that are registered keywords.
KeywordTable ==
    { <<"a", "n", "d">>, <<"o", "r">>, <<"i", "f">>, <<"e", "l", "s", "e">>,
      <<"w", "h", "i", "l", "e">>, <<"b", "r", "e", "a", "k">>,
      <<"c", "o", "n", "t", "i", "n", "u", "e">>,
      <<"r", "e", "t", "u", "r", "n">>, <<"d", "e", "f">>,
      <<"N", "o", "n", "e">> }

\* The comment loop of __read_whitespace_and_comment: the index of the
\* newline that ends the comment, or the end of the source.
RECURSIVE skip_comment(_, _)
skip_comment(src, i) ==
    IF i < Len(src) /\ src[i + 1] # "\n" THEN skip_comment(src, i + 1) ELSE i

\* The whitespace loop of __read_whitespace_and_comment.
RECURSIVE skip_whitespace(_, _)
skip_whitespace(src, t) ==
    IF t.index < Len(src) /\ src[t.index + 1] \in {" ", "\t", "\n"}
    THEN skip_whitespace(src,
             IF src[t.index + 1] = "\n"
             THEN [index |-> t.index + 1, line_start_index |-> t.index + 1,
                   line_number |-> t.line_number + 1]
             ELSE [t EXCEPT !.index = @ + 1])
    ELSE t

RECURSIVE read_whitespace_and_comment(_, _)
read_whitespace_and_comment(src, t) ==
    LET again(t1) ==
            IF t1.index = t.index THEN t1
            ELSE read_whitespace_and_comment(src, t1)
    IN  again(skip_whitespace(src,
                  IF t.index < Len(src) /\ src[t.index + 1] = "#"
                  THEN [t EXCEPT !.index = skip_comment(src, t.index)]
                  ELSE t))

\* __read_operator, without the move of __index that follows a match.
read_operator(src, t, operator) ==
    /\ t.index + Len(operator) <= Len(src)
    /\ SubSeq(src, t.index + 1, t.index + Len(operator)) = operator

\* The loop of __read_string from current_index on: the index of the
\* closing quote or the end of the source, with the line bookkeeping the
\* loop does (line_start_index is set from __index, the start of the string).
RECURSIVE scan_string(_, _, _)
scan_string(src, t, current_index) ==
    IF current_index < Len(src) /\ src[current_index + 1] # "\""
    THEN scan_string(src,
             IF src[current_index + 1] = "\n"
             THEN [t EXCEPT !.line_number = @ + 1,
                            !.line_start_index = t.index + 1]
             ELSE t,
             current_index + 1)
    ELSE [tokenizer |-> t, current_index |-> current_index]

\* __read_string that leaves __index two characters after the closing quote.
read_string_past(src, t) ==
    LET closed(s) ==
            IF s.current_index >= Len(src)
            THEN [tokenizer |-> s.tokenizer, token |-> NoToken,
                  error |-> raise_exception(
                                src,
                                DebugInfo(s.tokenizer.line_number,
                                          s.tokenizer.line_start_index),
                                "Invalid string found.")]
            ELSE [tokenizer |-> [s.tokenizer EXCEPT
                                     !.index = s.current_index + 2],
                  token |-> TokenString(SubSeq(src, s.tokenizer.index + 1,
                                               s.current_index)),
                  error |-> NoError]
    IN  closed(scan_string(src, [t EXCEPT !.index = @ + 1], t.index + 1))

\* __read_string at an opening quote.
read_string(src, t) ==
    LET closed(s) ==
            IF s.current_index >= Len(src)
            THEN [tokenizer |-> s.tokenizer, token |-> NoToken,
                  error |-> raise_exception(
                                src,
                                DebugInfo(s.tokenizer.line_number,
                                          s.tokenizer.line_start_index),
                                "Invalid string found.")]
            ELSE [tokenizer |-> [s.tokenizer EXCEPT
                                     !.index = s.current_index + 1],
                  token |-> TokenString(SubSeq(src, s.tokenizer.index + 1,
                                               s.current_index)),
                  error |-> NoError]
    IN  closed(scan_string(src, [t EXCEPT !.index = @ + 1], t.index + 1))

\* The loops of __read_number: the digits of the integer part, then the
\* digits after a '.'.
RECURSIVE read_digits(_, _, _)
read_digits(src, i, number) ==
    IF i < Len(src) /\ src[i + 1] \in DigitCharacters
    THEN read_digits(src, i + 1, number * 10 + DigitValue(src[i + 1]))
    ELSE [index |-> i, number |-> number]

\* __read_number at a digit.  A number with digits after the '.' is a
\* float; the model follows it only when those digits are all 0.
read_number(src, t) ==
    LET fraction(whole, part) ==
            IF part.index = whole.index + 1
            THEN [tokenizer |-> [t EXCEPT !.index = part.index],
                  token |-> TokenNumber(whole.number), error |-> NoError]
            ELSE IF part.number = 0
            THEN [tokenizer |-> [t EXCEPT !.index = part.index],
                  token |-> TokenFloat(whole.number), error |-> NoError]
            ELSE [tokenizer |-> [t EXCEPT !.index = part.index],
                  token |-> NoToken, error |-> OutOfModel("float")]
        integer(whole) ==
            IF whole.index < Len(src) /\ src[whole.index + 1] = "."
            THEN fraction(whole, read_digits(src, whole.index + 1, 0))
            ELSE [tokenizer |-> [t EXCEPT !.index = whole.index],
                  token |-> TokenNumber(whole.number), error |-> NoError]
    IN  integer(read_digits(src, t.index, 0))

\* The loop of __read_identifier: the index after the identifier.
RECURSIVE scan_identifier(_, _)
scan_identifier(src, current_index) ==
    IF current_index < Len(src)
       /\ src[current_index + 1] \in {"_"} \cup Letters \cup DigitCharacters
    THEN scan_identifier(src, current_index + 1)
    ELSE current_index

\* __read_identifier at '_' or a letter, and the keyword table of
\* read_token.
read_identifier(src, t) ==
    LET spelled(text) ==
            IF text \in KeywordTable THEN Token(Join(text))
            ELSE TokenIdentifierText(text)
        upto(current_index) ==
            [tokenizer |-> [t EXCEPT !.index = current_index],
             token |-> spelled(SubSeq(src, t.index + 1, current_index)),
             error |-> NoError]
    IN  upto(scan_identifier(src, t.index + 1))

\* read_token after the whitespace and the comments are skipped.
read_token_at(src, t) ==
    IF t.index >= Len(src)
    THEN [tokenizer |-> t, token |-> NoToken, error |-> NoError]
    ELSE IF \E k \in DOMAIN OperatorTable : read_operator(src, t, OperatorTable[k])
    THEN LET k == CHOOSE k \in DOMAIN OperatorTable :
                      /\ read_operator(src, t, OperatorTable[k])
                      /\ \A j \in 1 .. k - 1 :
                            ~read_operator(src, t, OperatorTable[j])
         IN  [tokenizer |-> [t EXCEPT !.index = @ + Len(OperatorTable[k])],
              token |-> Token(Join(OperatorTable[k])), error |-> NoError]
    ELSE IF src[t.index + 1] = "\"" THEN read_string(src, t)
    ELSE IF src[t.index + 1] \in DigitCharacters THEN read_number(src, t)
    ELSE IF src[t.index + 1] \in {"_"} \cup Letters THEN read_identifier(src, t)
    ELSE [tokenizer |-> t, token |-> NoToken,
          error |-> raise_exception(
                        src, DebugInfo(t.line_number, t.line_start_index),
                        "Undefined token found.")]

read_token(src, t) == read_token_at(src, read_whitespace_and_comment(src, t))

(***************************************************************************)
(* parser.py: Parser.  A parser state p holds __tokenizer and              *)
(* __current_token; a parsing method returns [p, node, error], the state   *)
(* it leaves, what it returns and the exception it raises.                 *)
(***************************************************************************)
ParseOk(p, node) == [p |-> p, node |-> node, error |-> NoError]

ParseFail(p, err) == [p |-> p, node |-> Null, error |-> err]

\* DebugInfo(self.__tokenizer)
DebugInfoOf(p) == DebugInfo(p.tokenizer.line_number, p.tokenizer.line_start_index)

\* self.__current_token is None: reading its .type raises.
AtEnd(p) == p.current_token = NoToken

NoTokenError ==
    PythonError("AttributeError", "'NoneType' object has no attribute 'type'")

\* __read_token: the node of the result is the previous token.
parser_read_token(src, p, token_type) ==
    LET next(r) ==
            IF r.error # NoError THEN ParseFail(p, r.error)
            ELSE ParseOk([tokenizer |-> r.tokenizer, current_token |-> r.token],
                         p.current_token)
    IN  IF AtEnd(p) THEN ParseFail(p, NoTokenError)
        ELSE IF p.current_token.type # token_type
        THEN ParseFail(p, raise_exception(
                 src, DebugInfoOf(p),
                 "Unexpected token found. We were expecting '" \o token_type
                 \o "' but found '" \o p.current_token.type \o "'."))
        ELSE next(read_token(src, p.tokenizer))

\* self.__read_token(token_type) after a step that returned r, keeping
\* what r returned.
expect(src, r, token_type) ==
    LET keep(r1) == IF r1.error # NoError THEN r1 ELSE ParseOk(r1.p, r.node)
    IN  IF r.error # NoError THEN r
        ELSE keep(parser_read_token(src, r.p, token_type))

\* In a loop over operators: no operator has been read yet, or expression1
\* and the operator token are waiting for expression2.
NoPending == [none |-> TRUE]

Pending(expression1, token) ==
    [none |-> FALSE, expression1 |-> expression1, token |-> token]

RECURSIVE parse_method(_, _, _)
RECURSIVE parse_statement(_, _)
RECURSIVE parse_statement_list_loop(_, _, _)
RECURSIVE parse_expression_assignment(_, _)
RECURSIVE parse_expression_andor_loop(_, _, _)
RECURSIVE parse_expression_plus_loop(_, _, _)
RECURSIVE parse_expression_multiply_loop(_, _, _)
RECURSIVE parse_expression_unary(_, _)
RECURSIVE parse_expression_primary_loop(_, _)
RECURSIVE parse_items_loop(_, _, _, _, _)

parse_expression(src, p) == parse_expression_assignment(src, p)

parse_expression_identifier(src, p) ==
    LET made(r) ==
            IF r.error # NoError THEN r
            ELSE ParseOk(r.p, ExpressionIdentifier(r.node, DebugInfoOf(r.p)))
    IN  made(parser_read_token(src, p, "identifier"))

parse_expression_number(src, p) ==
    LET made(r) ==
            IF r.error # NoError THEN r
            ELSE ParseOk(r.p, ExpressionLiteral(r.node, DebugInfoOf(r.p)))
    IN  made(parser_read_token(src, p, "number"))

parse_expression_string(src, p) ==
    LET made(r) ==
            IF r.error # NoError THEN r
            ELSE ParseOk(r.p, ExpressionLiteral(r.node, DebugInfoOf(r.p)))
    IN  made(parser_read_token(src, p, "string"))

parse_expression_none(src, p) ==
    LET made(r) ==
            IF r.error # NoError THEN r
            ELSE ParseOk(r.p, ExpressionLiteral(r.node, DebugInfoOf(r.p)))
    IN  made(parser_read_token(src, p, "None"))

\* One element of a comma-separated list: an expression, or an
\* expression_identifier in the parameters of a function.
parse_item(src, p, identifiers) ==
    IF identifiers THEN parse_expression_identifier(src, p)
    ELSE parse_method("expression", src, p)

\* while not self.__is_current_token(close): read ','; parse; append
parse_items_loop(src, p, close, identifiers, items) ==
    LET item(r) ==
            IF r.error # NoError THEN r
            ELSE parse_items_loop(src, r.p, close, identifiers,
                                  Append(items, r.node))
        comma(r) ==
            IF r.error # NoError THEN r
            ELSE item(parse_item(src, r.p, identifiers))
    IN  IF AtEnd(p) THEN ParseFail(p, NoTokenError)
        ELSE IF p.current_token.type = close THEN ParseOk(p, items)
        ELSE comma(parser_read_token(src, p, ","))

\* The elements between an opening token and `close`, as
\* __parse_expression_list, __parse_expression_primary and
\* __parse_statement_function read them: one element unless `close` comes
\* first, then the loop.
parse_items(src, p, close, identifiers) ==
    LET first(r) ==
            IF r.error # NoError THEN r
            ELSE parse_items_loop(src, r.p, close, identifiers, <<r.node>>)
    IN  IF AtEnd(p) THEN ParseFail(p, NoTokenError)
        ELSE IF p.current_token.type # close
        THEN first(parse_item(src, p, identifiers))
        ELSE parse_items_loop(src, p, close, identifiers, <<>>)

parse_expression_list(src, p) ==
    LET closed(r) ==
            IF r.error # NoError THEN r
            ELSE ParseOk(r.p, ExpressionList(r.node, DebugInfoOf(r.p)))
        opened(r) ==
            IF r.error # NoError THEN r
            ELSE closed(expect(src, parse_items(src, r.p, "]", FALSE), "]"))
    IN  opened(parser_read_token(src, p, "["))

\* The parentheses leave no node: the inner expression is returned.
parse_expression_parenthesis(src, p) ==
    LET opened(r) ==
            IF r.error # NoError THEN r
            ELSE expect(src, parse_method("expression", src, r.p), ")")
    IN  opened(parser_read_token(src, p, "("))

parse_expression_atom(src, p) ==
    IF AtEnd(p) THEN ParseFail(p, NoTokenError)
    ELSE CASE p.current_token.type = "number" -> parse_expression_number(src, p)
           [] p.current_token.type = "string" -> parse_expression_string(src, p)
           [] p.current_token.type = "None" -> parse_expression_none(src, p)
           [] p.current_token.type = "[" -> parse_expression_list(src, p)
           [] p.current_token.type = "(" -> parse_expression_parenthesis(src, p)
           [] OTHER -> parse_expression_identifier(src, p)

\* The loop of __parse_expression_primary; r.node is expression1.
parse_expression_primary_loop(src, r) ==
    LET subscripted(r2) ==
            IF r2.error # NoError THEN r2
            ELSE parse_expression_primary_loop(
                     src, ParseOk(r2.p, ExpressionSubscription(
                                            r.node, r2.node, DebugInfoOf(r2.p))))
        bracket(r1) ==
            IF r1.error # NoError THEN r1
            ELSE subscripted(expect(src, parse_method("expression", src, r1.p), "]"))
        called(r2) ==
            IF r2.error # NoError THEN r2
            ELSE parse_expression_primary_loop(
                     src, ParseOk(r2.p, ExpressionCall(
                                            r.node, r2.node, DebugInfoOf(r2.p))))
        parenthesis(r1) ==
            IF r1.error # NoError THEN r1
            ELSE called(expect(src, parse_items(src, r1.p, ")", FALSE), ")"))
    IN  IF r.error # NoError THEN r
        ELSE IF AtEnd(r.p) THEN ParseFail(r.p, NoTokenError)
        ELSE IF r.p.current_token.type = "["
        THEN bracket(parser_read_token(src, r.p, "["))
        ELSE IF r.p.current_token.type = "("
        THEN parenthesis(parser_read_token(src, r.p, "("))
        ELSE r

parse_expression_primary(src, p) ==
    parse_expression_primary_loop(src, parse_method("expression_atom", src, p))

parse_expression_unary(src, p) ==
    LET made(token, r) ==
            IF r.error # NoError THEN r
            ELSE ParseOk(r.p, ExpressionUnary(r.node, token, DebugInfoOf(r.p)))
        minus(r) ==
            IF r.error # NoError THEN r
            ELSE made(r.node, parse_method("expression_unary", src, r.p))
    IN  IF AtEnd(p) THEN ParseFail(p, NoTokenError)
        ELSE IF p.current_token.type = "-"
        THEN minus(parser_read_token(src, p, "-"))
        ELSE parse_method("expression_primary", src, p)

\* The loop of __parse_expression_multiply, one operand at a time: the operand
\* that follows `pending`, an expression1 with its operator token, becomes
\* expression2 of the new node.
parse_expression_multiply_loop(src, p, pending) ==
    LET operator(expression1, r1) ==
            IF r1.error # NoError THEN r1
            ELSE parse_expression_multiply_loop(
                     src, r1.p, Pending(expression1, r1.node))
        operand(r) ==
            IF r.error # NoError THEN r
            ELSE IF AtEnd(r.p) THEN ParseFail(r.p, NoTokenError)
            ELSE IF r.p.current_token.type \in {"*", "/", "%"}
            THEN operator(r.node,
                          parser_read_token(src, r.p, r.p.current_token.type))
            ELSE r
        joined(r2) ==
            IF r2.error # NoError \/ pending.none THEN r2
            ELSE ParseOk(r2.p, ExpressionBinary(
                                   pending.expression1, r2.node, pending.token,
                                   DebugInfoOf(r2.p)))
    IN  operand(joined(parse_method("expression_unary", src, p)))

parse_expression_multiply(src, p) ==
    parse_expression_multiply_loop(src, p, NoPending)

\* A loop that gives the rest of the chain of '+' and '-' to the first
\* operator as its right operand.
parse_expression_plus_loop_right(src, p, pending) ==
    LET made(expression1, token, r2) ==
            IF r2.error # NoError THEN r2
            ELSE ParseOk(r2.p, ExpressionBinary(expression1, r2.node, token,
                                                DebugInfoOf(r2.p)))
        operator(expression1, r1) ==
            IF r1.error # NoError THEN r1
            ELSE made(expression1, r1.node,
                      parse_expression_plus_loop(src, r1.p, pending))
        operand(r) ==
            IF r.error # NoError THEN r
            ELSE IF AtEnd(r.p) THEN ParseFail(r.p, NoTokenError)
            ELSE IF r.p.current_token.type \in {"+", "-"}
            THEN operator(r.node,
                          parser_read_token(src, r.p, r.p.current_token.type))
            ELSE r
    IN  operand(parse_method("expression_multiply", src, p))

\* The loop of __parse_expression_plus, one operand at a time: the operand
\* that follows `pending`, an expression1 with its operator token, becomes
\* expression2 of the new node.
parse_expression_plus_loop(src, p, pending) ==
    LET operator(expression1, r1) ==
            IF r1.error # NoError THEN r1
            ELSE parse_expression_plus_loop(
                     src, r1.p, Pending(expression1, r1.node))
        operand(r) ==
            IF r.error # NoError THEN r
            ELSE IF AtEnd(r.p) THEN ParseFail(r.p, NoTokenError)
            ELSE IF r.p.current_token.type \in {"+", "-"}
            THEN operator(r.node,
                          parser_read_token(src, r.p, r.p.current_token.type))
            ELSE r
        joined(r2) ==
            IF r2.error # NoError \/ pending.none THEN r2
            ELSE ParseOk(r2.p, ExpressionBinary(
                                   pending.expression1, r2.node, pending.token,
                                   DebugInfoOf(r2.p)))
    IN  operand(joined(parse_method("expression_multiply", src, p)))

parse_expression_plus(src, p) ==
    parse_expression_plus_loop(src, p, NoPending)

\* At most one comparison: there is no loop.
parse_expression_compare(src, p) ==
    LET made(expression1, token, r2) ==
            IF r2.error # NoError THEN r2
            ELSE ParseOk(r2.p, ExpressionBinary(expression1, r2.node, token,
                                                DebugInfoOf(r2.p)))
        operator(r, r1) ==
            IF r1.error # NoError THEN r1
            ELSE made(r.node, r1.node, parse_method("expression_plus", src, r1.p))
        left(r) ==
            IF r.error # NoError THEN r
            ELSE IF AtEnd(r.p) THEN ParseFail(r.p, NoTokenError)
            ELSE IF r.p.current_token.type \in {"<", ">", "<=", ">=", "==", "!="}
            THEN operator(r, parser_read_token(src, r.p, r.p.current_token.type))
            ELSE r
    IN  left(parse_method("expression_plus", src, p))

\* The loop of __parse_expression_andor, one operand at a time: the operand
\* that follows `pending`, an expression1 with its operator token, becomes
\* expression2 of the new node.
parse_expression_andor_loop(src, p, pending) ==
    LET operator(expression1, r1) ==
            IF r1.error # NoError THEN r1
            ELSE parse_expression_andor_loop(
                     src, r1.p, Pending(expression1, r1.node))
        operand(r) ==
            IF r.error # NoError THEN r
            ELSE IF AtEnd(r.p) THEN ParseFail(r.p, NoTokenError)
            ELSE IF r.p.current_token.type \in {"and", "or"}
            THEN operator(r.node,
                          parser_read_token(src, r.p, r.p.current_token.type))
            ELSE r
        joined(r2) ==
            IF r2.error # NoError \/ pending.none THEN r2
            ELSE ParseOk(r2.p, ExpressionAndOr(
                                   pending.expression1, r2.node, pending.token,
                                   DebugInfoOf(r2.p)))
    IN  operand(joined(parse_method("expression_compare", src, p)))

parse_expression_andor(src, p) ==
    parse_expression_andor_loop(src, p, NoPending)

\* At most one '=': there is no loop.
parse_expression_assignment(src, p) ==
    LET made(expression1, r2) ==
            IF r2.error # NoError THEN r2
            ELSE ParseOk(r2.p, ExpressionAssignment(expression1, r2.node,
                                                    DebugInfoOf(r2.p)))
        operator(r, r1) ==
            IF r1.error # NoError THEN r1
            ELSE made(r.node, parse_method("expression_andor", src, r1.p))
        left(r) ==
            IF r.error # NoError THEN r
            ELSE IF AtEnd(r.p) THEN ParseFail(r.p, NoTokenError)
            ELSE IF r.p.current_token.type = "="
            THEN operator(r, parser_read_token(src, r.p, "="))
            ELSE r
    IN  left(parse_method("expression_andor", src, p))

\* The loop of __parse_statement_list after the '{'.
parse_statement_list_loop(src, p, statement_list) ==
    LET appended(r) ==
            IF r.error # NoError THEN r
            ELSE parse_statement_list_loop(src, r.p,
                                           Append(statement_list, r.node))
    IN  IF AtEnd(p) THEN ParseFail(p, NoTokenError)
        ELSE IF p.current_token.type # "}"
        THEN appended(parse_method("statement", src, p))
        ELSE ParseOk(p, statement_list)

parse_statement_list(src, p) ==
    LET opened(r) ==
            IF r.error # NoError THEN r
            ELSE expect(src, parse_statement_list_loop(src, r.p, <<>>), "}")
    IN  opened(parser_read_token(src, p, "{"))

parse_statement_none(src, p) ==
    LET made(r) == IF r.error # NoError THEN r ELSE ParseOk(r.p, StatementNone)
    IN  made(parser_read_token(src, p, ";"))

parse_statement_if(src, p) ==
    LET made(expression, statement_list1, r) ==
            IF r.error # NoError THEN r
            ELSE ParseOk(r.p, StatementIf(expression, statement_list1,
                                          Else(r.node)))
        else(expression, statement_list1, r) ==
            IF r.error # NoError THEN r
            ELSE made(expression, statement_list1,
                      parse_method("statement_list", src, r.p))
        then(expression, r) ==
            IF r.error # NoError THEN r
            ELSE IF AtEnd(r.p) THEN ParseFail(r.p, NoTokenError)
            ELSE IF r.p.current_token.type = "else"
            THEN else(expression, r.node, parser_read_token(src, r.p, "else"))
            ELSE ParseOk(r.p, StatementIf(expression, r.node, NoElse))
        condition(r) ==
            IF r.error # NoError THEN r
            ELSE then(r.node, parse_method("statement_list", src, r.p))
        parenthesis(r) ==
            IF r.error # NoError THEN r
            ELSE condition(expect(src, parse_method("expression", src, r.p), ")"))
    IN  parenthesis(expect(src, parser_read_token(src, p, "if"), "("))

parse_statement_while(src, p) ==
    LET made(expression, r) ==
            IF r.error # NoError THEN r
            ELSE ParseOk(r.p, StatementWhile(expression, r.node))
        condition(r) ==
            IF r.error # NoError THEN r
            ELSE made(r.node, parse_method("statement_list", src, r.p))
        parenthesis(r) ==
            IF r.error # NoError THEN r
            ELSE condition(expect(src, parse_method("expression", src, r.p), ")"))
    IN  parenthesis(expect(src, parser_read_token(src, p, "while"), "("))

parse_statement_break(src, p) ==
    LET made(r) == IF r.error # NoError THEN r ELSE ParseOk(r.p, StatementBreak)
    IN  made(expect(src, parser_read_token(src, p, "break"), ";"))

parse_statement_continue(src, p) ==
    LET made(r) ==
            IF r.error # NoError THEN r ELSE ParseOk(r.p, StatementContinue)
    IN  made(expect(src, parser_read_token(src, p, "continue"), ";"))

parse_statement_return(src, p) ==
    LET made(r) ==
            IF r.error # NoError THEN r
            ELSE ParseOk(r.p, StatementReturn(r.node))
        keyword(r) ==
            IF r.error # NoError THEN r
            ELSE IF AtEnd(r.p) THEN ParseFail(r.p, NoTokenError)
            ELSE IF r.p.current_token.type # ";"
            THEN made(expect(src, parse_method("expression", src, r.p), ";"))
            ELSE made(expect(src, ParseOk(r.p, Null), ";"))
    IN  keyword(parser_read_token(src, p, "return"))

\* The identity of the StatementFunction object is the place in the source
\* where the parser made it.
parse_statement_function(src, p) ==
    LET made(identifier, argument_list, r) ==
            IF r.error # NoError THEN r
            ELSE ParseOk(r.p, StatementFunction(identifier, argument_list,
                                                r.node, r.p.tokenizer.index))
        arguments(identifier, r) ==
            IF r.error # NoError THEN r
            ELSE made(identifier, r.node, parse_method("statement_list", src, r.p))
        named(r) ==
            IF r.error # NoError THEN r
            ELSE arguments(r.node,
                           expect(src, parse_items(src, r.p, ")", TRUE), ")"))
        keyword(r) ==
            IF r.error # NoError THEN r
            ELSE named(expect(src, parse_expression_identifier(src, r.p), "("))
    IN  keyword(parser_read_token(src, p, "def"))

parse_statement_expression(src, p) ==
    LET made(r) ==
            IF r.error # NoError THEN r
            ELSE ParseOk(r.p, StatementExpression(r.node))
    IN  made(expect(src, parse_method("expression", src, p), ";"))

\* A __parse_statement that leaves the ';' of an empty statement unread.
parse_statement_kept(src, p) ==
    LET kept(r) ==
            IF r.error = NoError /\ r.node = StatementNone
            THEN ParseOk(p, r.node) ELSE r
    IN  kept(
            CASE p.current_token.type = ";" -> parse_statement_none(src, p)
              [] p.current_token.type = "if" -> parse_statement_if(src, p)
              [] p.current_token.type = "while" -> parse_statement_while(src, p)
              [] p.current_token.type = "break" -> parse_statement_break(src, p)
              [] p.current_token.type = "continue" -> parse_statement_continue(src, p)
              [] p.current_token.type = "return" -> parse_statement_return(src, p)
              [] p.current_token.type = "def" -> parse_statement_function(src, p)
              [] OTHER -> parse_statement_expression(src, p))

\* A caller reads the type of the current token before it calls
\* __parse_statement, so there is a current token here.
parse_statement(src, p) ==
    CASE p.current_token.type = ";" -> parse_statement_none(src, p)
      [] p.current_token.type = "if" -> parse_statement_if(src, p)
      [] p.current_token.type = "while" -> parse_statement_while(src, p)
      [] p.current_token.type = "break" -> parse_statement_break(src, p)
      [] p.current_token.type = "continue" -> parse_statement_continue(src, p)
      [] p.current_token.type = "return" -> parse_statement_return(src, p)
      [] p.current_token.type = "def" -> parse_statement_function(src, p)
      [] OTHER -> parse_statement_expression(src, p)

\* self.__parse_<method>(): the call of a parsing method from another one.
parse_method(method, src, p) ==
    CASE method = "statement" -> parse_statement(src, p)
      [] method = "statement_list" -> parse_statement_list(src, p)
      [] method = "expression" -> parse_expression(src, p)
      [] method = "expression_andor" -> parse_expression_andor(src, p)
      [] method = "expression_compare" -> parse_expression_compare(src, p)
      [] method = "expression_plus" -> parse_expression_plus(src, p)
      [] method = "expression_multiply" -> parse_expression_multiply(src, p)
      [] method = "expression_unary" -> parse_expression_unary(src, p)
      [] method = "expression_primary" -> parse_expression_primary(src, p)
      [] method = "expression_atom" -> parse_expression_atom(src, p)

\* __parse_program: while self.__current_token: ...
RECURSIVE parse_program(_, _, _)
parse_program(src, p, statement_list) ==
    LET appended(r) ==
            IF r.error # NoError THEN r
            ELSE parse_program(src, r.p, Append(statement_list, r.node))
    IN  IF AtEnd(p) THEN ParseOk(p, statement_list)
        ELSE appended(parse_method("statement", src, p))

\* Parser.parse(Tokenizer(source)): node is Program.statement_list.
parse(src) ==
    LET first(r) ==
            IF r.error # NoError
            THEN ParseFail([tokenizer |-> r.tokenizer, current_token |-> NoToken],
                           r.error)
            ELSE parse_program(
                     src, [tokenizer |-> r.tokenizer, current_token |-> r.token],
                     <<>>)
    IN  first(read_token(src, Tokenizer))

(***************************************************************************)
(* parser.py: the print() methods.  What they write to the standard        *)
(* output is a sequence of characters.                                     *)
(***************************************************************************)
\* TokenType.value, as characters: the spelling of an operator or keyword.
TokenTypeText(token_type) ==
    CHOOSE text \in {OperatorTable[k] : k \in DOMAIN OperatorTable}
                    \cup KeywordTable : Join(text) = token_type

\* Token.print.  str() of a float without fraction ends with ".0".
token_print(token) ==
    CASE token.type = "number" ->
           IF token.float THEN IntChars(token.value) \o <<".", "0">>
           ELSE IntChars(token.value)
      [] token.type = "string" -> <<"\"">> \o token.value \o <<"\"">>
      [] token.type = "identifier" -> token.text
      [] OTHER -> TokenTypeText(token.type)

\* " " * indent
Spaces(indent) == [i \in 1 .. indent |-> " "]

RECURSIVE print_expression(_)
RECURSIVE print_expressions(_, _)
RECURSIVE print_statement(_, _)
RECURSIVE print_statements(_, _, _)

\* for i in range(len(expression_list)): print ", " before all but the
\* first, then the expression.
print_expressions(expression_list, i) ==
    IF i > Len(expression_list) THEN <<>>
    ELSE (IF i > 1 THEN <<",", " ">> ELSE <<>>)
         \o print_expression(expression_list[i])
         \o print_expressions(expression_list, i + 1)

\* Expression.print of each Expression class.  No method prints a
\* parenthesis around an operand.
print_expression(expression) ==
    CASE expression.type = "ASSIGNMENT" ->
           print_expression(expression.expression1) \o <<" ", "=", " ">>
           \o print_expression(expression.expression2)
      [] expression.type \in {"ANDOR", "BINARY"} ->
           print_expression(expression.expression1) \o <<" ">>
           \o token_print(expression.token) \o <<" ">>
           \o print_expression(expression.expression2)
      [] expression.type = "UNARY" ->
           token_print(expression.token)
           \o print_expression(expression.expression1)
      [] expression.type \in {"LITERAL", "IDENTIFIER"} ->
           token_print(expression.token)
      [] expression.type = "LIST" ->
           <<"[">> \o print_expressions(expression.expression_list, 1)
           \o <<"]">>
      [] expression.type = "SUBSCRIPTION" ->
           print_expression(expression.expression1) \o <<"[">>
           \o print_expression(expression.expression2) \o <<"]">>
      [] expression.type = "CALL" ->
           print_expression(expression.expression1) \o <<"(">>
           \o print_expressions(expression.expression_list, 1) \o <<")">>

\* for statement in statement_list: statement.print(indent)
print_statements(statement_list, i, indent) ==
    IF i > Len(statement_list) THEN <<>>
    ELSE print_statement(statement_list[i], indent)
         \o print_statements(statement_list, i + 1, indent)

\* Statement.print of each Statement class.  `if self.statement_list2:` is
\* false for None and for an empty list.
print_statement(statement, indent) ==
    Spaces(indent) \o
    CASE statement.type = "NONE" -> <<";", "\n">>
      [] statement.type = "EXPRESSION" ->
           print_expression(statement.expression) \o <<";", "\n">>
      [] statement.type = "IF" ->
           <<"i", "f", " ", "(">> \o print_expression(statement.expression)
           \o <<")", " ", "{", "\n">>
           \o print_statements(statement.statement_list1, 1, indent + 4)
           \o (IF ~statement.statement_list2.none
                  /\ statement.statement_list2.list # <<>>
               THEN Spaces(indent)
                    \o <<"}", " ", "e", "l", "s", "e", " ", "{", "\n">>
                    \o print_statements(statement.statement_list2.list, 1,
                                        indent + 4)
               ELSE <<>>)
           \o Spaces(indent) \o <<"}", "\n">>
      [] statement.type = "WHILE" ->
           <<"w", "h", "i", "l", "e", " ", "(">>
           \o print_expression(statement.expression)
           \o <<")", " ", "{", "\n">>
           \o print_statements(statement.statement_list1, 1, indent + 4)
           \o Spaces(indent) \o <<"}", "\n">>
      [] statement.type = "BREAK" ->
           <<"b", "r", "e", "a", "k", ";", "\n">>
      [] statement.type = "CONTINUE" ->
           <<"c", "o", "n", "t", "i", "n", "u", "e", ";", "\n">>
      [] statement.type = "RETURN" ->
           <<"r", "e", "t", "u", "r", "n">>
           \o (IF statement.expression # Null
               THEN <<" ">> \o print_expression(statement.expression)
               ELSE <<>>)
           \o <<";", "\n">>
      [] statement.type = "FUNCTION" ->
           <<"d", "e", "f", " ">> \o print_expression(statement.identifier)
           \o <<"(">> \o print_expressions(statement.argument_list, 1)
           \o <<")", " ", "{", "\n">>
           \o print_statements(statement.statement_list1, 1, indent + 4)
           \o Spaces(indent) \o <<"}", "\n">>

\* Program.print
program_print(statement_list) == print_statements(statement_list, 1, 0)

(***************************************************************************)
(* The mains of parser.py and evaluator.py on one source file: the parser  *)
(* reads the source, Program.print writes the program, the parser reads    *)
(* what was written, and the evaluator runs the program.                   *)
(***************************************************************************)
\* program = Parser().parse(Tokenizer(filename))
ParseProgram ==
    LET taken(r) ==
            /\ program' = IF r.error = NoError THEN r.node ELSE <<>>
            /\ error' = r.error
            /\ pc' = IF r.error.kind = "OutOfModel" THEN "cutoff"
                     ELSE IF r.error # NoError THEN "failed"
                     ELSE "print"
    IN  /\ pc = "parse"
        /\ taken(parse(source))
        /\ UNCHANGED <<source, index, variables, heap, last, printed, reparsed,
                       tokenizer, tokens,
                       current_token>>

\* program.print()
PrintProgram ==
    /\ pc = "print"
    /\ printed' = [done |-> TRUE, text |-> program_print(program)]
    /\ pc' = "reparse"
    /\ UNCHANGED <<source, program, index, variables, heap, error, last,
                   reparsed, tokenizer, tokens,
                       current_token>>

\* Parser().parse(Tokenizer(...)) on the text that program.print() wrote.
ParsePrinted ==
    LET taken(r) ==
            reparsed' = [done |-> TRUE, statement_list |-> r.node,
                         error |-> r.error]
    IN  /\ pc = "reparse"
        /\ taken(parse(printed.text))
        /\ pc' = IF Len(program) = 0 THEN "done" ELSE "evaluate"
        /\ UNCHANGED <<source, program, index, variables, heap, error, last,
                       printed, tokenizer, tokens,
                       current_token>>

InitPipeline(sources) ==
    /\ source \in sources
    /\ program = <<>>
    /\ pc = "parse"
    /\ index = 0
    /\ variables = install_builtin_functions
    /\ heap = <<>>
    /\ error = NoError
    /\ last = NoLast
    /\ printed = NotPrinted
    /\ reparsed = NotParsed
    /\ tokenizer = Tokenizer
    /\ tokens = <<>>
    /\ current_token = NoToken

NextPipeline ==
    \/ ParseProgram
    \/ PrintProgram
    \/ ParsePrinted
    \/ EvaluateProgram

(***************************************************************************)
(* The main of tokenizer.py on one source file, one turn of its loop       *)
(*     while token := tokenizer.read_token(): token.print()                *)
(* `tokens` collects the Tokens in the order in which they are printed.    *)
(***************************************************************************)
ReadToken ==
    LET taken(r) ==
            /\ tokenizer' = r.tokenizer
            /\ error' = r.error
            /\ tokens' = IF r.error = NoError /\ r.token # NoToken
                         THEN Append(tokens, r.token) ELSE tokens
            /\ pc' = IF r.error.kind = "OutOfModel" THEN "cutoff"
                     ELSE IF r.error # NoError THEN "failed"
                     ELSE IF r.token = NoToken THEN "done"
                     ELSE "tokenize"
    IN  /\ pc = "tokenize"
        /\ taken(read_token(source, tokenizer))
        /\ UNCHANGED <<source, program, index, variables, heap, last, printed,
                       reparsed, current_token>>

InitTokenizer(sources) ==
    /\ source \in sources
    /\ program = <<>>
    /\ pc = "tokenize"
    /\ index = 0
    /\ variables = install_builtin_functions
    /\ heap = <<>>
    /\ error = NoError
    /\ last = NoLast
    /\ printed = NotPrinted
    /\ reparsed = NotParsed
    /\ tokenizer = Tokenizer
    /\ tokens = <<>>
    /\ current_token = NoToken

NextTokenizer == ReadToken

\* The calls of read_token that a caller makes after read_token has returned
\* None: at most MaxCallsAtEnd of them, each result appended to `tokens`.
MaxCallsAtEnd == 2

CallsAtEnd == Cardinality({k \in DOMAIN tokens : tokens[k] = NoToken})

ReadTokenAtEnd ==
    LET taken(r) ==
            /\ tokenizer' = r.tokenizer
            /\ error' = r.error
            /\ tokens' = Append(tokens, r.token)
            /\ pc' = IF r.error = NoError THEN "done" ELSE "failed"
    IN  /\ pc = "done"
        /\ CallsAtEnd < MaxCallsAtEnd
        /\ taken(read_token(source, tokenizer))
        /\ UNCHANGED <<source, program, index, variables, heap, last, printed,
                       reparsed, current_token>>

NextCaller ==
    \/ ReadToken
    \/ ReadTokenAtEnd

(***************************************************************************)
(* Parser.parse by its steps: the first read_token, then one turn of the   *)
(* loop of __parse_program per step, up to MaxStatements turns, and the    *)
(* return of the Program when there is no current token.                   *)
(***************************************************************************)
MaxStatements == 5

\* self.__current_token = self.__tokenizer.read_token()
Parse ==
    LET taken(r) ==
            /\ tokenizer' = r.tokenizer
            /\ current_token' = r.token
            /\ error' = r.error
            /\ pc' = IF r.error # NoError THEN "failed" ELSE "statement"
    IN  /\ pc = "parser"
        /\ \E r \in {read_token(source, tokenizer)} : taken(r)
        /\ UNCHANGED <<source, program, index, variables, heap, last, printed,
                       reparsed, tokens>>

\* statement = self.__parse_statement(); statement_list.append(statement)
ParseStatement ==
    LET taken(r) ==
            /\ tokenizer' = r.p.tokenizer
            /\ current_token' = r.p.current_token
            /\ error' = r.error
            /\ program' = IF r.error = NoError THEN Append(program, r.node)
                          ELSE program
            /\ pc' = IF r.error.kind = "OutOfModel" THEN "cutoff"
                     ELSE IF r.error # NoError THEN "failed"
                     ELSE "statement"
    IN  /\ pc = "statement"
        /\ current_token # NoToken
        /\ Len(program) < MaxStatements
        /\ \E r \in {parse_method("statement", source,
                                   [tokenizer |-> tokenizer,
                                    current_token |-> current_token])} :
               taken(r)
        /\ UNCHANGED <<source, index, variables, heap, last, printed, reparsed,
                       tokens>>

\* return Program(statement_list)
ReturnProgram ==
    /\ pc = "statement"
    /\ current_token = NoToken
    /\ pc' = "done"
    /\ UNCHANGED <<source, program, index, variables, heap, error, last,
                   printed, reparsed, tokenizer, tokens, current_token>>

InitParser(sources) ==
    /\ source \in sources
    /\ program = <<>>
    /\ pc = "parser"
    /\ index = 0
    /\ variables = install_builtin_functions
    /\ heap = <<>>
    /\ error = NoError
    /\ last = NoLast
    /\ printed = NotPrinted
    /\ reparsed = NotParsed
    /\ tokenizer = Tokenizer
    /\ tokens = <<>>
    /\ current_token = NoToken

NextParser ==
    \/ Parse
    \/ ParseStatement
    \/ ReturnProgram

(***************************************************************************)
(* Programs as the parser builds them: shorthands for the nodes that the   *)
(* __parse_* methods construct, all on line 1.                             *)
(***************************************************************************)
Line1 == DebugInfo(1, 0)

\* A source whose line 1 ends with a newline, and one whose line 1 does not.
EvaluatorSources == {<<"#", "\n">>, <<"#">>}

Id(name) == ExpressionIdentifier(TokenIdentifier(name), Line1)

Num(n) == ExpressionLiteral(TokenNumber(n), Line1)

Str(chars) == ExpressionLiteral(TokenString(chars), Line1)

NoneLiteral == ExpressionLiteral(Token("None"), Line1)

ListOf(items) == ExpressionList(items, Line1)

Call(callee, arguments) == ExpressionCall(callee, arguments, Line1)

Assign(target, value) == ExpressionAssignment(target, value, Line1)

Sub(collection, i) == ExpressionSubscription(collection, i, Line1)

Bin(left, operator, right) ==
    ExpressionBinary(left, right, Token(operator), Line1)

AndOr(left, operator, right) ==
    ExpressionAndOr(left, right, Token(operator), Line1)

Neg(operand) == ExpressionUnary(operand, Token("-"), Line1)

Do(expression) == StatementExpression(expression)

Def(name, parameters, body, id) ==
    StatementFunction(Id(name), [i \in 1 .. Len(parameters) |-> Id(parameters[i])],
                      body, id)

\* All sequences over `pool` of length 0 .. n.
RECURSIVE SeqsUpTo(_, _)
SeqsUpTo(pool, n) ==
    IF n = 0 THEN {<<>>}
    ELSE LET shorter == SeqsUpTo(pool, n - 1)
         IN  shorter \cup {Append(q, x) : q \in shorter, x \in pool}

(***************************************************************************)
(* Aliasing of lists.  Every program binds a to [1, 2], b to a, and        *)
(* defines f(p), which appends to p and stores into p; then it runs up to  *)
(* MaxAliasSteps statements that mutate the list through a, b, c or p,     *)
(* bind c to it, or work on the separate list d.                           *)
(***************************************************************************)
MaxAliasSteps == 3

AliasPrefix ==
    << Do(Assign(Id("a"), ListOf(<<Num(1), Num(2)>>))),
       Do(Assign(Id("b"), Id("a"))),
       Def("f", <<"p">>,
           << Do(Call(Id("append"), <<Id("p"), Num(8)>>)),
              Do(Assign(Sub(Id("p"), Num(0)), Num(9))) >>, 1) >>

AliasPool ==
    { Do(Call(Id("append"), <<Id("a"), Num(3)>>)),
      Do(Call(Id("append"), <<Id("b"), Num(4)>>)),
      Do(Call(Id("append"), <<Id("c"), Num(5)>>)),
      Do(Assign(Sub(Id("a"), Num(0)), Num(6))),
      Do(Assign(Sub(Id("b"), Num(1)), Num(7))),
      Do(Assign(Sub(Id("c"), Num(2)), ListOf(<<>>))),
      Do(Assign(Id("c"), Id("b"))),
      Do(Call(Id("f"), <<Id("a")>>)),
      Do(Call(Id("f"), <<Id("c")>>)),
      Do(Assign(Id("d"), ListOf(<<Num(1), Num(2)>>))),
      Do(Call(Id("append"), <<Id("d"), Num(3)>>)) }

AliasPrograms == {AliasPrefix \o q : q \in SeqsUpTo(AliasPool, MaxAliasSteps)}

InitAlias == InitEvaluator(AliasPrograms, EvaluatorSources)

SpecAlias == InitAlias /\ [][NextEvaluator]_vars

\* The names that these programs bind to the list of a, and to nothing else.
AliasNames == {"a", "b", "c", "p"}

\* What the program itself observes of a list variable: len(name) and
\* name[i] for every i below it.
ObservedLen(name) ==
    evaluate_expression(Call(Id("len"), <<Id(name)>>), EvaluationState).value.data

ObservedItems(name) ==
    [i \in 1 .. ObservedLen(name) |->
        evaluate_expression(Sub(Id(name), Num(i - 1)), EvaluationState).value]

\* How many items a statement of AliasPool appends to the list of a.
AliasAppends(statement) ==
    IF statement.expression.type = "CALL"
       /\ statement.expression.expression1.token.value \in {"append", "f"}
       /\ statement.expression.expression_list[1].token.value \in AliasNames
    THEN 1 ELSE 0

RECURSIVE AliasAppended(_)
AliasAppended(n) ==
    IF n <= Len(AliasPrefix) THEN 0
    ELSE AliasAppended(n - 1) + AliasAppends(program[n])

\* C2: once b = a has run, every variable bound to that list observes the
\* same length and the same items, and the length is 2 plus the number of
\* items appended through any of the names: no assignment or argument
\* passing has copied the list.
TheoremAliasing ==
    (index >= 2 /\ error = NoError) =>
        /\ \A x \in AliasNames \cap DOMAIN variables :
              /\ ObservedLen(x) = ObservedLen("a")
              /\ ObservedItems(x) = ObservedItems("a")
        /\ ObservedLen("a") = 2 + AliasAppended(index)

\* b = a; append(b, ..) has run and a call f(..) has passed the list as an
\* argument: a, b and p observe 4 items.
WitnessAliasing ==
    /\ error = NoError
    /\ {"a", "b", "p"} \subseteq DOMAIN variables
    /\ \E k \in 1 .. index :
          program[k] = Do(Call(Id("append"), <<Id("b"), Num(4)>>))
    /\ ObservedLen("a") = 4
    /\ ObservedLen("p") = 4

(***************************************************************************)
(* Programs with one `<left> and <right>;` or `<left> or <right>;`         *)
(* statement after definitions of a list and of two functions with side    *)
(* effects.                                                                *)
(***************************************************************************)
AndOrPrefix ==
    << Do(Assign(Id("l"), ListOf(<<>>))),
       Def("t", <<>>,
           << Do(Call(Id("append"), <<Id("l"), Num(1)>>)),
              StatementReturn(Str(<<"a">>)) >>, 1),
       Def("z", <<>>,
           << Do(Assign(Id("x"), Num(5))), StatementReturn(ListOf(<<>>)) >>, 2) >>

AndOrLeft ==
    { Num(0), Num(1), Num(5), Str(<<>>), Str(<<"a">>), NoneLiteral,
      ListOf(<<>>), ListOf(<<Num(0)>>), Id("l"), Id("t"), Id("len"),
      Id("undefined"), Call(Id("t"), <<>>), Call(Id("z"), <<>>),
      Assign(Id("x"), Num(0)), Assign(Id("x"), Str(<<"b">>)),
      Bin(Num(2), "-", Num(2)),
      AndOr(Num(1), "and", Call(Id("t"), <<>>)),
      AndOr(Num(0), "or", Call(Id("z"), <<>>)) }

AndOrRight ==
    { Call(Id("undefined_fn"), <<>>), Id("undefined"), Id("l"),
      Assign(Id("y"), Num(7)), Call(Id("append"), <<Id("l"), Num(2)>>),
      Call(Id("t"), <<>>), Call(Id("z"), <<>>), Num(0), Num(2), Str(<<"a">>),
      NoneLiteral, Bin(Num(1), "/", Num(0)), Sub(Id("l"), Num(0)),
      AndOr(Num(0), "and", Id("undefined")) }

AndOrPrograms ==
    { Append(AndOrPrefix, Do(AndOr(left, operator, right))) :
        left \in AndOrLeft, operator \in {"and", "or"}, right \in AndOrRight }

InitAndOr == InitEvaluator(AndOrPrograms, EvaluatorSources)

SpecAndOr == InitAndOr /\ [][NextEvaluator]_vars

\* The state in which the last top-level statement started.
StateBefore ==
    [variables |-> last.before.variables, heap |-> last.before.heap,
     source |-> source, fuel |-> MaxFuel, trace |-> <<>>]

\* What an evaluation did that a program can notice: the names it looked
\* up and the functions it called.
Effects(trace) ==
    SelectSeq(trace, LAMBDA e : e.ev \in {"lookup", "call", "return"})

\* The and/or statement has run.
AndOrDone == index = Len(AndOrPrefix) + 1

\* The left operand of the and/or statement decides the result alone.
AndOrSkips(left) ==
    \/ last.statement.expression.token.type = "and"
       /\ ~is_true(left.value, left.st.heap)
    \/ last.statement.expression.token.type = "or"
       /\ is_true(left.value, left.st.heap)

\* C3: when the left operand of `and` is falsy, or that of `or` truthy,
\* the statement leaves exactly the state, lookups and calls of the left
\* operand alone and raises nothing; otherwise it leaves those of the left
\* operand followed by the right one; and a result is always the Number 1
\* or 0.
TheoremShortCircuit ==
    AndOrDone =>
        LET left == evaluate_expression(last.statement.expression.expression1,
                                        StateBefore)
            right == evaluate_expression(last.statement.expression.expression2,
                                         left.st)
            done == IF AndOrSkips(left) THEN left ELSE right
        IN  left.error = NoError =>
                /\ error = done.error
                /\ variables = done.st.variables
                /\ heap = done.st.heap
                /\ Effects(last.trace) = Effects(done.st.trace)
                /\ AndOrSkips(left) =>
                      /\ error = NoError
                      /\ last.value = boolean_value(
                             last.statement.expression.token.type = "or")
                /\ error = NoError =>
                      /\ last.value \in {ValueNumber(0, FALSE),
                                         ValueNumber(1, FALSE)}
                      /\ last.value = boolean_value(
                             is_true(done.value, done.st.heap))

\* `0 and undefined_fn();` has run: no exception, the value is 0 and
\* undefined_fn was never looked up.
WitnessShortCircuit ==
    /\ AndOrDone
    /\ last.statement = Do(AndOr(Num(0), "and", Call(Id("undefined_fn"), <<>>)))
    /\ error = NoError
    /\ last.value = ValueNumber(0, FALSE)
    /\ Effects(last.trace) = <<>>


(***************************************************************************)
(* Control flow.  Every program sets c = 0 and m = 0, defines the          *)
(* functions below and then runs up to MaxControlSteps statements of       *)
(* ControlPool.                                                            *)
(***************************************************************************)
MaxControlSteps == 2

Increment(name) == Do(Assign(Id(name), Bin(Id(name), "+", Num(1))))

IfThen(condition, statement_list) == StatementIf(condition, statement_list, NoElse)

\* def f(n) { i = 0; while (i < 2) { j = 0; while (j < 2) {
\*     if (i + j == n) { return i * 10 + j; } j = j + 1; } i = i + 1; }
\*   t = 1; return -1; }
FunctionF ==
    Def("f", <<"n">>,
        << Do(Assign(Id("i"), Num(0))),
           StatementWhile(Bin(Id("i"), "<", Num(2)),
               << Do(Assign(Id("j"), Num(0))),
                  StatementWhile(Bin(Id("j"), "<", Num(2)),
                      << IfThen(Bin(Bin(Id("i"), "+", Id("j")), "==", Id("n")),
                             << StatementReturn(
                                    Bin(Bin(Id("i"), "*", Num(10)), "+",
                                        Id("j"))) >>),
                         Increment("j") >>),
                  Increment("i") >>),
           Do(Assign(Id("t"), Num(1))),
           StatementReturn(Neg(Num(1))) >>, 1)

\* def g() { break; }
FunctionG == Def("g", <<>>, <<StatementBreak>>, 2)

\* def gc() { if (1) { continue; } m = 50; }
FunctionGC ==
    Def("gc", <<>>,
        << IfThen(Num(1), <<StatementContinue>>), Do(Assign(Id("m"), Num(50))) >>,
        3)

\* def h() { k = 1; }
FunctionH == Def("h", <<>>, <<Do(Assign(Id("k"), Num(1)))>>, 4)

\* def e() { while (1) { if (1) { return; } m = 60; } m = 70; }
FunctionE ==
    Def("e", <<>>,
        << StatementWhile(Num(1),
               << IfThen(Num(1), <<StatementReturn(Null)>>),
                  Do(Assign(Id("m"), Num(60))) >>),
           Do(Assign(Id("m"), Num(70))) >>, 5)

ControlPrefix ==
    << Do(Assign(Id("c"), Num(0))), Do(Assign(Id("m"), Num(0))),
       FunctionF, FunctionG, FunctionGC, FunctionH, FunctionE >>

\* while (c < 2) { c = c + 1; d = 0;
\*                 while (1) { d = d + 1; if (d == 2) { break; } m = m + 1; }
\*                 m = m + 10; }
NestedBreak ==
    StatementWhile(Bin(Id("c"), "<", Num(2)),
        << Increment("c"), Do(Assign(Id("d"), Num(0))),
           StatementWhile(Num(1),
               << Increment("d"),
                  IfThen(Bin(Id("d"), "==", Num(2)), <<StatementBreak>>),
                  Increment("m") >>),
           Do(Assign(Id("m"), Bin(Id("m"), "+", Num(10)))) >>)

\* while (c < 3) { c = c + 1; if (c == 2) { continue; } m = m + 1; }
SkipSecond ==
    StatementWhile(Bin(Id("c"), "<", Num(3)),
        << Increment("c"),
           IfThen(Bin(Id("c"), "==", Num(2)), <<StatementContinue>>),
           Increment("m") >>)

\* while (1) { if (c) { } else { if (1) { break; } } m = 99; }
DeepBreak ==
    StatementWhile(Num(1),
        << StatementIf(Id("c"), <<>>,
                       Else(<<IfThen(Num(1), <<StatementBreak>>)>>)),
           Do(Assign(Id("m"), Num(99))) >>)

\* while (c < 2) { c = c + 1; g(); }
BreakingCall ==
    StatementWhile(Bin(Id("c"), "<", Num(2)),
        << Increment("c"), Do(Call(Id("g"), <<>>)) >>)

\* while (c < 2) { c = c + 1; gc(); }
ContinuingCall ==
    StatementWhile(Bin(Id("c"), "<", Num(2)),
        << Increment("c"), Do(Call(Id("gc"), <<>>)) >>)

ControlPool ==
    { Do(Assign(Id("r"), Call(Id("f"), <<Num(n)>>))) : n \in {0, 1, 2, 5} }
    \cup { Do(Assign(Id("r"), Call(Id(name), <<>>))) :
             name \in {"g", "gc", "h", "e"} }
    \cup { NestedBreak, SkipSecond, DeepBreak, BreakingCall, ContinuingCall,
           StatementWhile(Num(0), <<Do(Assign(Id("m"), Num(99)))>>),
           StatementWhile(Num(1), <<Increment("m")>>),
           StatementBreak, StatementContinue, StatementReturn(Null),
           StatementReturn(Num(3)),
           IfThen(Num(1), <<Increment("m"), StatementBreak, Increment("m")>>),
           StatementIf(Num(0), <<>>, Else(<<StatementContinue>>)),
           IfThen(Id("m"), <<StatementReturn(Id("m"))>>),
           Increment("m"), Increment("c"), StatementNone }

ControlPrograms ==
    {ControlPrefix \o q : q \in SeqsUpTo(ControlPool, MaxControlSteps)}

InitControl == InitEvaluator(ControlPrograms, EvaluatorSources)

SpecControl == InitControl /\ [][NextEvaluator]_vars


\* The trace of the last top-level statement without its name lookups.
Flow == SelectSeq(last.trace, LAMBDA e : e.ev # "lookup")

\* The statements and calls that are entered and not yet left after the
\* first k events of a trace, innermost last.
RECURSIVE Open(_, _)
Open(trace, k) ==
    IF k = 0 THEN <<>>
    ELSE LET before == Open(trace, k - 1)
         IN  CASE trace[k].ev = "enter" -> Append(before, trace[k].statement)
               [] trace[k].ev = "call" ->
                    Append(before, [type |-> "CALL", id |-> trace[k].function,
                                    name |-> trace[k].name])
               [] trace[k].ev \in {"exit", "return"} ->
                    SubSeq(before, 1, Len(before) - 1)
               [] OTHER -> before

\* The construct that directly encloses the statement left by event k.
Parent(trace, k) ==
    IF Open(trace, k) = <<>> THEN [type |-> "PROGRAM"]
    ELSE Open(trace, k)[Len(Open(trace, k))]

ExitEvent(statement, control_type, value) ==
    [ev |-> "exit", statement |-> statement, control_type |-> control_type,
     value |-> value]

IsCondition(event, statement) ==
    event.ev = "condition" /\ event.statement = statement

\* C5: in every trace, a while statement that is entered evaluates its
\* condition first; a falsy condition makes it return (NEXT, None); a
\* truthy one enters the body; a BREAK or CONTINUE leaving a statement of
\* an if-block leaves that if with the same signal; a BREAK leaving a
\* statement of a while body makes that loop, the innermost one, return
\* (NEXT, None); CONTINUE there, and NEXT from the last statement of the
\* body, lead to the condition of that loop; and no while statement ever
\* returns BREAK or CONTINUE.
TheoremWhile ==
    \A k \in 1 .. Len(Flow) :
        LET event == Flow[k]
            parent == Parent(Flow, k)
        IN  /\ (event.ev = "enter" /\ event.statement.type = "WHILE"
                /\ k < Len(Flow)) =>
                  IsCondition(Flow[k + 1], event.statement)
            /\ (event.ev = "condition" /\ ~event.truth) =>
                  /\ k < Len(Flow)
                  /\ Flow[k + 1] = ExitEvent(event.statement, "NEXT", PyNone)
            /\ (event.ev = "condition" /\ event.truth /\ k < Len(Flow)) =>
                  Flow[k + 1] = [ev |-> "enter",
                                 statement |-> event.statement.statement_list1[1]]
            /\ (event.ev = "exit" /\ parent.type = "IF"
                /\ event.control_type \in {"BREAK", "CONTINUE"}) =>
                  /\ k < Len(Flow)
                  /\ Flow[k + 1] = ExitEvent(parent, event.control_type, PyNone)
            /\ (event.ev = "exit" /\ parent.type = "WHILE") =>
                  /\ k < Len(Flow)
                  /\ event.control_type = "BREAK" =>
                        Flow[k + 1] = ExitEvent(parent, "NEXT", PyNone)
                  /\ event.control_type = "CONTINUE" =>
                        IsCondition(Flow[k + 1], parent)
                  /\ (event.control_type = "NEXT"
                      /\ event.statement =
                           parent.statement_list1[Len(parent.statement_list1)])
                        => IsCondition(Flow[k + 1], parent)
                  /\ event.control_type = "NEXT" =>
                        \/ IsCondition(Flow[k + 1], parent)
                        \/ /\ Flow[k + 1].ev = "enter"
                           /\ \E i \in DOMAIN parent.statement_list1 :
                                 parent.statement_list1[i] = Flow[k + 1].statement
            /\ (event.ev = "exit" /\ event.statement.type = "WHILE") =>
                  /\ event.control_type \in {"NEXT", "RETURN"}
                  /\ event.control_type = "NEXT" => event.value = PyNone

\* The nested loops of NestedBreak have run to their end: the inner loop
\* was left by break twice, and each time the outer loop went on.
WitnessWhile ==
    /\ last.statement = NestedBreak
    /\ error = NoError
    /\ pc \in {"evaluate", "done"}
    /\ variables["c"] = ValueNumber(2, FALSE)
    /\ variables["m"] = ValueNumber(22, FALSE)
    /\ Len(SelectSeq(Flow, LAMBDA e : e.ev = "exit"
                                      /\ e.control_type = "BREAK")) = 4


\* The call that is running when event k of the trace happens.
Frame(trace, k) ==
    LET calls == SelectSeq(Open(trace, k), LAMBDA x : x.type = "CALL")
    IN  IF calls = <<>> THEN [type |-> "PROGRAM"] ELSE calls[Len(calls)]

\* The last top-level statement is r = <function>(...).
IsAssignedCall ==
    /\ index > Len(ControlPrefix)
    /\ last.statement.type = "EXPRESSION"
    /\ last.statement.expression.type = "ASSIGNMENT"
    /\ last.statement.expression.expression2.type = "CALL"

\* C6: when a return statement has run inside a call, the trace goes on
\* only with the enclosing if and while statements returning (RETURN, v)
\* for the same value v, up to the end of the call, which yields v: no
\* condition is evaluated and no statement entered in between.  The value
\* of a return without expression is None, and the caller receives v.
TheoremReturn ==
    /\ \A k \in 1 .. Len(Flow) :
          (Flow[k].ev = "exit" /\ Flow[k].statement.type = "RETURN") =>
              /\ Flow[k].control_type = "RETURN"
              /\ Flow[k].statement.expression = Null =>
                    Flow[k].value = ValueNone
              /\ Frame(Flow, k).type = "CALL" =>
                    \E j \in k + 1 .. Len(Flow) :
                        /\ Flow[j] = [ev |-> "return",
                                      function |-> Frame(Flow, k).id,
                                      name |-> Frame(Flow, k).name,
                                      value |-> Flow[k].value]
                        /\ \A i \in k + 1 .. j - 1 :
                              /\ Flow[i].ev = "exit"
                              /\ Flow[i].statement.type \in {"IF", "WHILE"}
                              /\ Flow[i].control_type = "RETURN"
                              /\ Flow[i].value = Flow[k].value
    /\ (IsAssignedCall /\ error = NoError) =>
          /\ Flow[Len(Flow) - 1].ev = "return"
          /\ variables["r"] = Flow[Len(Flow) - 1].value

\* r = f(2) has run: the return in the if of the inner loop of f ended the
\* call with 11 while i and j were 1, and t = 1 after the loops never ran.
WitnessReturn ==
    /\ last.statement = Do(Assign(Id("r"), Call(Id("f"), <<Num(2)>>)))
    /\ error = NoError
    /\ variables["r"] = ValueNumber(11, FALSE)
    /\ variables["i"] = ValueNumber(1, FALSE)
    /\ variables["j"] = ValueNumber(1, FALSE)
    /\ "t" \notin DOMAIN variables


\* C7: the statements run in source order, one per step and only while
\* no exception was raised; a top-level statement that returns BREAK,
\* CONTINUE or RETURN raises "<it> was returned to the top level." and no
\* statement runs after it; when the evaluation is done, every statement
\* has run and returned NEXT.
TheoremTopLevel ==
    /\ [](/\ index > 0 => last.statement = program[index]
          /\ (index > 0 /\ last.control_type \in {"BREAK", "CONTINUE", "RETURN"})
                => /\ error = PythonError("Exception",
                                 last.control_type
                                 \o " was returned to the top level.")
                   /\ pc = "failed"
          /\ error # NoError => ~ENABLED EvaluateProgram
          /\ (error = NoError /\ index < Len(program)) => pc = "evaluate"
          /\ pc = "done" => (index = Len(program) /\ error = NoError)
          /\ (index > 0 /\ error = NoError) => last.control_type = "NEXT")
    /\ [][/\ error = NoError
          /\ index' = index + 1
          /\ last'.statement = program[index + 1]]_vars

\* if (1) { m = m + 1; break; m = m + 1; } has run at the top level with
\* another statement after it: the evaluation has failed with m = 1.
WitnessTopLevel ==
    /\ last.statement =
          IfThen(Num(1), <<Increment("m"), StatementBreak, Increment("m")>>)
    /\ index < Len(program)
    /\ error = TopLevelError("BREAK")
    /\ variables["m"] = ValueNumber(1, FALSE)
    /\ ~ENABLED EvaluateProgram


\* Event k of the trace is a BREAK or CONTINUE leaving a statement that
\* stands directly in the body of the running function.
EscapesCall(k) ==
    /\ Flow[k].ev = "exit"
    /\ Flow[k].control_type \in {"BREAK", "CONTINUE"}
    /\ Parent(Flow, k).type = "CALL"

\* C8: a BREAK or CONTINUE that leaves a function body ends the evaluation
\* at once, whatever loop encloses the call, with the exception "<it> was
\* returned while evaluating function '<name>'"; and a call whose body
\* runs to its end yields None.
ClaimCallBoundary ==
    \A k \in 1 .. Len(Flow) :
        /\ EscapesCall(k) =>
              /\ k = Len(Flow)
              /\ pc = "failed"
              /\ error = PythonError("Exception",
                             Flow[k].control_type
                             \o " was returned while evaluating function '"
                             \o Parent(Flow, k).name \o "'")
        /\ (Flow[k].ev = "return" /\ Flow[k - 1].ev \in {"call", "exit"}
            /\ (Flow[k - 1].ev = "exit" => Flow[k - 1].control_type = "NEXT"))
              => Flow[k].value = ValueNone

\* while (c < 2) { c = c + 1; g(); } has run, g being def g() { break; }:
\* the break left the body of g, the loop at the call site did not absorb
\* it (c is 1), and the evaluation ended with Python's NameError.
WitnessCallBoundary ==
    /\ last.statement = BreakingCall
    /\ EscapesCall(Len(Flow))
    /\ Parent(Flow, Len(Flow)).name = "g"
    /\ variables["c"] = ValueNumber(1, FALSE)
    /\ pc = "failed"
    /\ error = PythonError("NameError", "name 'identifier' is not defined")


(***************************************************************************)
(* Parameters in the one environment.  Every program defines f(x), the     *)
(* recursive h(n) and k(x), which calls f, and then runs up to             *)
(* MaxScopeSteps statements of ScopePool.                                  *)
(***************************************************************************)
MaxScopeSteps == 3

\* The recursion of h ends at this argument.
ScopeDepth == 3

ScopePrefix ==
    << \* def f(x) { y = x + 1; return y; }
       Def("f", <<"x">>,
           << Do(Assign(Id("y"), Bin(Id("x"), "+", Num(1)))),
              StatementReturn(Id("y")) >>, 1),
       \* def h(n) { if (n < 3) { h(n + 1); } return n; }
       Def("h", <<"n">>,
           << IfThen(Bin(Id("n"), "<", Num(ScopeDepth)),
                     <<Do(Call(Id("h"), <<Bin(Id("n"), "+", Num(1))>>))>>),
              StatementReturn(Id("n")) >>, 2),
       \* def k(x, z) { w = f(x * 2); return x; }
       Def("k", <<"x", "z">>,
           << Do(Assign(Id("w"), Call(Id("f"), <<Bin(Id("x"), "*", Num(2))>>))),
              StatementReturn(Id("x")) >>, 3) >>

ScopePool ==
    { Do(Assign(Id(name), Num(9))) : name \in {"x", "n", "z"} }
    \cup { Do(Assign(Id("r"), Call(Id("f"), <<Num(a)>>))) : a \in {2, 5} }
    \cup { Do(Assign(Id("r"), Call(Id("h"), <<Num(a)>>))) : a \in 1 .. 4 }
    \cup { Do(Assign(Id("r"), Call(Id("k"), <<Num(a), ListOf(<<Id("r")>>)>>))) :
             a \in {1, 4} }
    \cup { Do(Assign(Id("r"), Id("x"))) }

ScopePrograms == {ScopePrefix \o q : q \in SeqsUpTo(ScopePool, MaxScopeSteps)}

InitScope == InitEvaluator(ScopePrograms, EvaluatorSources)

SpecScope == InitScope /\ [][NextEvaluator]_vars

\* The last top-level statement is r = <name>(<number>, ...).
CalledWith(name) ==
    /\ index > Len(ScopePrefix)
    /\ last.statement.expression.expression2.type = "CALL"
    /\ last.statement.expression.expression2.expression1.token.value = name

CalledArgument == last.statement.expression.expression2.expression_list[1].token.value

\* C9: after a statement with calls, each parameter name holds, in the
\* one environment, the argument of the last call that bound it, also
\* after that call and its callers have returned and whatever the name
\* held before; so h(a) returns the argument of its innermost call and
\* k(a) returns the argument 2a of its call of f.
TheoremFlatScope ==
    (index > Len(ScopePrefix) /\ error = NoError) =>
        /\ \A k \in 1 .. Len(Flow) :
              Flow[k].ev = "call" =>
                  \A i \in DOMAIN Flow[k].parameters :
                      (\A j \in k + 1 .. Len(Flow) :
                          Flow[j].ev = "call" =>
                              \A i2 \in DOMAIN Flow[j].parameters :
                                  Flow[j].parameters[i2] # Flow[k].parameters[i])
                      => /\ Flow[k].parameters[i] \in DOMAIN variables
                         /\ variables[Flow[k].parameters[i]] =
                               Flow[k].arguments[i]
        /\ CalledWith("h") =>
              /\ variables["r"] = variables["n"]
              /\ variables["n"] =
                    ValueNumber(IF CalledArgument < ScopeDepth THEN ScopeDepth
                                ELSE CalledArgument, FALSE)
        /\ CalledWith("k") =>
              /\ variables["r"] = ValueNumber(2 * CalledArgument, FALSE)
              /\ variables["x"] = variables["r"]

\* x = 9; r = h(1); has run: the three nested calls of h have returned, n
\* and r are 3, the argument of the innermost call, and x is still 9.
WitnessFlatScope ==
    /\ CalledWith("h")
    /\ CalledArgument = 1
    /\ error = NoError
    /\ Len(SelectSeq(Flow, LAMBDA e : e.ev = "call")) = 3
    /\ variables["n"] = ValueNumber(3, FALSE)
    /\ variables["r"] = ValueNumber(3, FALSE)
    /\ "x" \in DOMAIN variables
    /\ variables["x"] = ValueNumber(9, FALSE)


(***************************************************************************)
(* Equality.  Every program defines two functions with the same text,      *)
(* binds x and y to two values of EqualPool and compares them.             *)
(***************************************************************************)
EqualPrefix ==
    << Def("f1", <<>>, <<>>, 1), Def("f2", <<>>, <<>>, 2),
       Do(Assign(Id("g"), Id("f1"))) >>

EqualPool ==
    { Num(0), Num(1), Num(2), Bin(Num(4), "/", Num(2)), Neg(Num(1)),
      Str(<<>>), Str(<<"1">>), Str(<<"a">>), NoneLiteral,
      ListOf(<<>>), ListOf(<<Num(1), Num(2)>>),
      ListOf(<<Num(1), Num(2), Num(3)>>), ListOf(<<Num(1), Num(3)>>),
      ListOf(<<Str(<<"1">>), Num(2)>>), ListOf(<<NoneLiteral>>),
      ListOf(<<ListOf(<<>>)>>),
      ListOf(<<ListOf(<<Num(1), Num(2)>>), Id("f1")>>),
      ListOf(<<ListOf(<<Num(1), Num(2)>>), Id("g")>>),
      ListOf(<<ListOf(<<Num(1), Num(2)>>), Id("f2")>>),
      ListOf(<<ListOf(<<Num(1), Num(3)>>), Id("f1")>>),
      Id("f1"), Id("f2"), Id("g"), Id("len"), Id("print") }

EqualPrograms ==
    { EqualPrefix \o
        << Do(Assign(Id("x"), a)), Do(Assign(Id("y"), b)),
           Do(Assign(Id("r"), Bin(Id("x"), "==", Id("y")))),
           Do(Assign(Id("q"), Bin(Id("x"), "!=", Id("y")))),
           Do(Assign(Id("s"), Bin(Id("y"), "==", Id("x")))),
           Do(Assign(Id("t"), Bin(Id("x"), "==", Id("x")))) >> :
        a \in EqualPool, b \in EqualPool }

InitEqual == InitEvaluator(EqualPrograms, EvaluatorSources)

SpecEqual == InitEqual /\ [][NextEvaluator]_vars

\* Two Values are the same: of one variant, and the same number, the same
\* string, both None, lists of the same length with the same items, or
\* the same function.
RECURSIVE Same(_, _)
Same(a, b) ==
    /\ a.type = b.type
    /\ CASE a.type = "LIST" ->
               /\ Len(heap[a.data]) = Len(heap[b.data])
               /\ \A i \in DOMAIN heap[a.data] :
                     Same(heap[a.data][i], heap[b.data][i])
          [] a.type = "NONE" -> TRUE
          [] OTHER -> a.data = b.data

\* C10: when the comparisons have run, x == y is 1 if x and y are the
\* same Value and 0 if not, x != y is the opposite, y == x is what x == y
\* is, and x == x is 1.
TheoremEqual ==
    pc = "done" =>
        /\ variables["r"] = boolean_value(Same(variables["x"], variables["y"]))
        /\ variables["x"].type # variables["y"].type =>
              variables["r"] = ValueNumber(0, FALSE)
        /\ variables["q"] = ValueNumber(1 - variables["r"].data, FALSE)
        /\ variables["s"] = variables["r"]
        /\ variables["t"] = ValueNumber(1, FALSE)

\* x = [[1, 2], f1]; y = [[1, 2], g]; with g = f1 has run its comparisons:
\* x and y are two lists, and x == y is 1.
WitnessEqual ==
    /\ pc = "done"
    /\ program[4] = Do(Assign(Id("x"),
                        ListOf(<<ListOf(<<Num(1), Num(2)>>), Id("f1")>>)))
    /\ program[5] = Do(Assign(Id("y"),
                        ListOf(<<ListOf(<<Num(1), Num(2)>>), Id("g")>>)))
    /\ variables["x"].data # variables["y"].data
    /\ variables["r"] = ValueNumber(1, FALSE)
    /\ variables["q"] = ValueNumber(0, FALSE)

(***************************************************************************)
(* Source files.  Texts whose parentheses override the precedence or the   *)
(* associativity of the operators, and texts of the other statements and   *)
(* expressions, some of which the tokenizer or the parser rejects.         *)
(***************************************************************************)
\* (2 + 3) * 4;
ProductOfSum ==
    <<"(", "2", " ", "+", " ", "3", ")", " ", "*", " ", "4", ";", "\n">>

\* 2 + 3 * 4;
SumOfProduct ==
    <<"2", " ", "+", " ", "3", " ", "*", " ", "4", ";", "\n">>

\* a = 7;
\* b = 4;
\* c = 2;
\* r = a - (b - c);
DifferenceOfDifference ==
    <<"a", " ", "=", " ", "7", ";", "\n", "b", " ", "=", " ", "4", ";", "\n",
    "c", " ", "=", " ", "2", ";", "\n", "r", " ", "=", " ", "a", " ", "-",
    " ", "(", "b", " ", "-", " ", "c", ")", ";", "\n">>

\* a = 7;
\* b = 4;
\* r = -(a + b);
MinusOfSum ==
    <<"a", " ", "=", " ", "7", ";", "\n", "b", " ", "=", " ", "4", ";", "\n",
    "r", " ", "=", " ", "-", "(", "a", " ", "+", " ", "b", ")", ";", "\n">>

\* a = 1;
\* b = 2;
\* c = 3;
\* r = (a < b) < c;
ComparisonOfComparison ==
    <<"a", " ", "=", " ", "1", ";", "\n", "b", " ", "=", " ", "2", ";", "\n",
    "c", " ", "=", " ", "3", ";", "\n", "r", " ", "=", " ", "(", "a", " ",
    "<", " ", "b", ")", " ", "<", " ", "c", ";", "\n">>

\* a = (b = 1);
AssignmentOfAssignment ==
    <<"a", " ", "=", " ", "(", "b", " ", "=", " ", "1", ")", ";", "\n">>

PlainTexts ==
    \* x = [1, "s", None];
    \* y = x[0];
    { <<"x", " ", "=", " ", "[", "1", ",", " ", "\"", "s", "\"", ",", " ",
        "N", "o", "n", "e", "]", ";", "\n", "y", " ", "=", " ", "x", "[",
        "0", "]", ";", "\n">>,
    \* def f(a, b) {
    \*     return a + b;
    \* }
    \* r = f(1, 2);
      <<"d", "e", "f", " ", "f", "(", "a", ",", " ", "b", ")", " ", "{",
        "\n", " ", " ", " ", " ", "r", "e", "t", "u", "r", "n", " ", "a",
        " ", "+", " ", "b", ";", "\n", "}", "\n", "r", " ", "=", " ", "f",
        "(", "1", ",", " ", "2", ")", ";", "\n">>,
    \* i = 0;
    \* while (i < 2) {
    \*     i = i + 1;
    \* }
      <<"i", " ", "=", " ", "0", ";", "\n", "w", "h", "i", "l", "e", " ",
        "(", "i", " ", "<", " ", "2", ")", " ", "{", "\n", " ", " ", " ",
        " ", "i", " ", "=", " ", "i", " ", "+", " ", "1", ";", "\n", "}",
        "\n">>,
    \* if (1) { x = 1; } else { x = 2; }
    \* ;
      <<"i", "f", " ", "(", "1", ")", " ", "{", " ", "x", " ", "=", " ",
        "1", ";", " ", "}", " ", "e", "l", "s", "e", " ", "{", " ", "x", " ",
        "=", " ", "2", ";", " ", "}", "\n", ";", "\n">>,
    \* if (0) { } else { }
    \* ;
      <<"i", "f", " ", "(", "0", ")", " ", "{", " ", "}", " ", "e", "l",
        "s", "e", " ", "{", " ", "}", "\n", ";", "\n">>,
    \* x = 2.0 * 007;  # seven
      <<"x", " ", "=", " ", "2", ".", "0", " ", "*", " ", "0", "0", "7",
        ";", " ", " ", "#", " ", "s", "e", "v", "e", "n", "\n">>,
    \* s = "a
    \* b";
      <<"s", " ", "=", " ", "\"", "a", "\n", "b", "\"", ";", "\n">>,
    \* # nothing
      <<"#", " ", "n", "o", "t", "h", "i", "n", "g", "\n">>,
    \* def g() { return; }
    \* g();
    \* break;
      <<"d", "e", "f", " ", "g", "(", ")", " ", "{", " ", "r", "e", "t",
        "u", "r", "n", ";", " ", "}", "\n", "g", "(", ")", ";", "\n", "b",
        "r", "e", "a", "k", ";", "\n">>,
    \* r = 1 < 2 and 0 or 3 == 3;
      <<"r", " ", "=", " ", "1", " ", "<", " ", "2", " ", "a", "n", "d",
        " ", "0", " ", "o", "r", " ", "3", " ", "=", "=", " ", "3", ";",
        "\n">>,
    \* r = len([1, 2])(3)[4];
      <<"r", " ", "=", " ", "l", "e", "n", "(", "[", "1", ",", " ", "2",
        "]", ")", "(", "3", ")", "[", "4", "]", ";", "\n">>,
    \* continue;
      <<"c", "o", "n", "t", "i", "n", "u", "e", ";">>,
    \* x = y
      <<"x", " ", "=", " ", "y">>,
    \* x = "abc
      <<"x", " ", "=", " ", "\"", "a", "b", "c">>,
    \* x = 1 ? 2;
      <<"x", " ", "=", " ", "1", " ", "?", " ", "2", ";", "\n">> }

(***************************************************************************)
(* Expressions over integer literals: r = X op1 Y op2 Z; with and without  *)
(* parentheses, unary minus and subscripts.  A case is the text of the     *)
(* expression and the tree that the precedence order of the grammar gives  *)
(* it: and/or < comparison < additive < multiplicative < unary minus <     *)
(* postfix, the operators of one level from left to right, parentheses     *)
(* overriding.                                                             *)
(***************************************************************************)
Operands == {0, 2, 3}

Comparisons == {"<", "=="}

Operators == {"and", "or"} \cup Comparisons \cup {"+", "-", "*", "/", "%"}

\* The precedence level of a binary operator.
Level(operator) ==
    CASE operator \in {"and", "or"} -> 1
      [] operator \in Comparisons -> 2
      [] operator \in {"+", "-"} -> 3
      [] operator \in {"*", "/", "%"} -> 4

Leaf(n) == [text |-> Digits(n), tree |-> [node |-> "number", value |-> n]]

Negated(x) ==
    [text |-> <<"-">> \o x.text, tree |-> [node |-> "minus", operand |-> x.tree]]

Parenthesised(x) == [text |-> <<"(">> \o x.text \o <<")">>, tree |-> x.tree]

\* [x][0]: the first element of the list of x.
Indexed(x) ==
    [text |-> <<"[">> \o x.text \o <<"]", "[", "0", "]">>, tree |-> x.tree]

Tree(operator, left, right) ==
    [node |-> "binary", operator |-> operator, left |-> left, right |-> right]

\* x op y, where x and y are literals, negated, parenthesised or indexed
\* terms.
Pair(x, operator, y) ==
    [text |-> x.text \o <<" ">> \o TokenTypeText(operator) \o <<" ">>
              \o y.text,
     tree |-> Tree(operator, x.tree, y.tree)]

\* x op1 y op2 z without parentheses: op2 takes y first only when its level
\* is above the level of op1.
Chain(x, operator1, y, operator2, z) ==
    [text |-> x.text \o <<" ">> \o TokenTypeText(operator1) \o <<" ">>
              \o y.text \o <<" ">> \o TokenTypeText(operator2) \o <<" ">>
              \o z.text,
     tree |-> IF Level(operator2) > Level(operator1)
              THEN Tree(operator1, x.tree, Tree(operator2, y.tree, z.tree))
              ELSE Tree(operator2, Tree(operator1, x.tree, y.tree), z.tree)]

Leaves == {Leaf(n) : n \in Operands}

Terms == Leaves \cup {Negated(x) : x \in Leaves}

\* The cases whose first operand is x and whose first operator is
\* operator1: x op1 y, x op1 y op2 z, (x op1 y) op2 z, x op1 (y op2 z) and
\* -(x op1 y) op2 z.  The grammar has no chain of two comparisons.
CasesFrom(x, operator1) ==
    {Pair(x, operator1, y) : y \in Terms}
    \cup {Chain(x, operator1, y, operator2, z) :
              y \in Leaves, z \in Leaves,
              operator2 \in IF operator1 \in Comparisons
                            THEN Operators \ Comparisons ELSE Operators}
    \cup UNION { { Pair(Parenthesised(Pair(x, operator1, y)), operator2, z),
                   Pair(x, operator1, Parenthesised(Pair(y, operator2, z))),
                   Pair(Negated(Parenthesised(Pair(x, operator1, y))),
                        operator2, z) } :
                 y \in Leaves, z \in Leaves, operator2 \in Operators }

PrecedenceCases ==
    UNION {CasesFrom(x, operator1) : x \in Terms, operator1 \in Operators}

\* A subscript on an operand of a binary operator and under a unary minus.
PostfixCases ==
    UNION { { Pair(x, operator, Indexed(y)), Pair(Indexed(x), operator, y),
              Pair(Negated(Indexed(x)), operator, y) } :
            x \in Leaves, y \in Leaves,
            operator \in {"+", "-", "*", "/", "%"} }

\* 2 + 3 * 4, (2 + 3) * 4, -2 * -3, 7 - 4 - 2, 7 - 4 * 2, 8 / 4 / 2,
\* -7 % 3, 1 + 2 < 2 * 2, 2 * [3][0] and -[3][0] + 1, each with its value.
Examples ==
    { [text |-> Chain(Leaf(2), "+", Leaf(3), "*", Leaf(4)).text,
       value |-> ValueNumber(14, FALSE)],
      [text |-> Pair(Parenthesised(Pair(Leaf(2), "+", Leaf(3))), "*",
                     Leaf(4)).text,
       value |-> ValueNumber(20, FALSE)],
      [text |-> Pair(Negated(Leaf(2)), "*", Negated(Leaf(3))).text,
       value |-> ValueNumber(6, FALSE)],
      [text |-> Chain(Leaf(7), "-", Leaf(4), "-", Leaf(2)).text,
       value |-> ValueNumber(1, FALSE)],
      [text |-> Chain(Leaf(7), "-", Leaf(4), "*", Leaf(2)).text,
       value |-> ValueNumber(-1, FALSE)],
      [text |-> Chain(Leaf(8), "/", Leaf(4), "/", Leaf(2)).text,
       value |-> ValueNumber(1, TRUE)],
      [text |-> Pair(Negated(Leaf(7)), "%", Leaf(3)).text,
       value |-> ValueNumber(2, FALSE)],
      [text |-> Pair(Pair(Leaf(1), "+", Leaf(2)), "<",
                     Pair(Leaf(2), "*", Leaf(2))).text,
       value |-> ValueNumber(1, FALSE)],
      [text |-> Pair(Leaf(2), "*", Indexed(Leaf(3))).text,
       value |-> ValueNumber(6, FALSE)],
      [text |-> Pair(Negated(Indexed(Leaf(3))), "+", Leaf(1)).text,
       value |-> ValueNumber(-2, FALSE)] }

\* r = <expression>;
AssignmentText(expression_text) ==
    <<"r", " ", "=", " ">> \o expression_text \o <<";", "\n">>

PipelineSources ==
    {ProductOfSum, SumOfProduct, DifferenceOfDifference, MinusOfSum,
     ComparisonOfComparison, AssignmentOfAssignment}
    \cup PlainTexts
    \cup {AssignmentText(c.text) :
              c \in PrecedenceCases \cup PostfixCases \cup Examples}

InitPipelineSources == InitPipeline(PipelineSources)

SpecPipeline == InitPipelineSources /\ [][NextPipeline]_vars

(***************************************************************************)
(* The shape of an AST: the kinds of the nodes, their tokens, the order    *)
(* and the nesting of their children, without the DebugInfo and without    *)
(* the identity of the objects.  An else clause without statements and a   *)
(* missing else clause have the same shape.                                *)
(***************************************************************************)
RECURSIVE ShapeOfExpression(_)
RECURSIVE ShapeOfStatement(_)

ShapeOfExpressions(expression_list) ==
    [i \in DOMAIN expression_list |-> ShapeOfExpression(expression_list[i])]

ShapeOfStatements(statement_list) ==
    [i \in DOMAIN statement_list |-> ShapeOfStatement(statement_list[i])]

ShapeOfExpression(expression) ==
    CASE expression.type \in {"LITERAL", "IDENTIFIER"} ->
           [type |-> expression.type, token |-> expression.token]
      [] expression.type \in {"ANDOR", "BINARY"} ->
           [type |-> expression.type, token |-> expression.token,
            expression1 |-> ShapeOfExpression(expression.expression1),
            expression2 |-> ShapeOfExpression(expression.expression2)]
      [] expression.type \in {"ASSIGNMENT", "SUBSCRIPTION"} ->
           [type |-> expression.type,
            expression1 |-> ShapeOfExpression(expression.expression1),
            expression2 |-> ShapeOfExpression(expression.expression2)]
      [] expression.type = "UNARY" ->
           [type |-> expression.type, token |-> expression.token,
            expression1 |-> ShapeOfExpression(expression.expression1)]
      [] expression.type = "LIST" ->
           [type |-> expression.type,
            expression_list |-> ShapeOfExpressions(expression.expression_list)]
      [] expression.type = "CALL" ->
           [type |-> expression.type,
            expression1 |-> ShapeOfExpression(expression.expression1),
            expression_list |-> ShapeOfExpressions(expression.expression_list)]

ShapeOfStatement(statement) ==
    CASE statement.type \in {"NONE", "BREAK", "CONTINUE"} ->
           [type |-> statement.type]
      [] statement.type = "EXPRESSION" ->
           [type |-> statement.type,
            expression |-> ShapeOfExpression(statement.expression)]
      [] statement.type = "IF" ->
           [type |-> statement.type,
            expression |-> ShapeOfExpression(statement.expression),
            statement_list1 |-> ShapeOfStatements(statement.statement_list1),
            statement_list2 |->
                IF statement.statement_list2.none THEN <<>>
                ELSE ShapeOfStatements(statement.statement_list2.list)]
      [] statement.type = "WHILE" ->
           [type |-> statement.type,
            expression |-> ShapeOfExpression(statement.expression),
            statement_list1 |-> ShapeOfStatements(statement.statement_list1)]
      [] statement.type = "RETURN" ->
           [type |-> statement.type,
            expression |-> IF statement.expression = Null THEN Null
                           ELSE ShapeOfExpression(statement.expression)]
      [] statement.type = "FUNCTION" ->
           [type |-> statement.type,
            identifier |-> ShapeOfExpression(statement.identifier),
            argument_list |-> ShapeOfExpressions(statement.argument_list),
            statement_list1 |-> ShapeOfStatements(statement.statement_list1)]

\* C1: once the printed text of a program that the parser accepted has been
\* parsed again, the second parse has raised nothing and its AST has the
\* shape of the AST of the source: the same node kinds and tokens, in the
\* same order and nesting.
ClaimRoundTrip ==
    reparsed.done =>
        /\ reparsed.error = NoError
        /\ ShapeOfStatements(reparsed.statement_list)
               = ShapeOfStatements(program)

\* 2 + 3 * 4; as Program.print writes the program of (2 + 3) * 4;
WitnessRoundTrip ==
    /\ source = ProductOfSum
    /\ printed.done
    /\ printed.text = SumOfProduct
    /\ reparsed.done
    /\ reparsed.error = NoError
    /\ ShapeOfStatements(reparsed.statement_list) # ShapeOfStatements(program)

(***************************************************************************)
(* The value of a tree: Python's arithmetic on int and float.  A division  *)
(* gives a float, which the model follows when it is a whole number.       *)
(***************************************************************************)
Undefined(kind) == [type |-> "UNDEFINED", kind |-> kind]

Magnitude(n) == IF n < 0 THEN -n ELSE n

\* The quotients that a division of `dividend` by a non-zero number can have.
Quotients(dividend) == -(Magnitude(dividend) + 1) .. Magnitude(dividend) + 1

\* Value.boolean_value
Truth(condition) == ValueNumber(IF condition THEN 1 ELSE 0, FALSE)

\* The value of `left operator right` from the values of the operands.  An
\* `and` whose left operand is false and an `or` whose left operand is true
\* do not look at the right operand.
ValueOfOperation(operator, left, right) ==
    IF left.type = "UNDEFINED" THEN left
    ELSE IF operator = "and" /\ left.data = 0 THEN Truth(FALSE)
    ELSE IF operator = "or" /\ left.data # 0 THEN Truth(TRUE)
    ELSE IF right.type = "UNDEFINED" THEN right
    ELSE CASE operator \in {"and", "or"} -> Truth(right.data # 0)
           [] operator = "<" -> Truth(left.data < right.data)
           [] operator = "==" -> Truth(left.data = right.data)
           [] operator = "+" ->
                ValueNumber(left.data + right.data, left.float \/ right.float)
           [] operator = "-" ->
                ValueNumber(left.data - right.data, left.float \/ right.float)
           [] operator = "*" ->
                ValueNumber(left.data * right.data, left.float \/ right.float)
           [] operator = "%" ->
                IF right.data = 0 THEN Undefined("ZeroDivisionError")
                ELSE ValueNumber(
                         CHOOSE m \in (IF right.data > 0
                                       THEN 0 .. right.data - 1
                                       ELSE right.data + 1 .. 0) :
                             \E q \in Quotients(left.data) :
                                 q * right.data + m = left.data,
                         left.float \/ right.float)
           [] operator = "/" ->
                IF right.data = 0 THEN Undefined("ZeroDivisionError")
                ELSE IF \E q \in Quotients(left.data) :
                            q * right.data = left.data
                THEN ValueNumber(
                         CHOOSE q \in Quotients(left.data) :
                             q * right.data = left.data, TRUE)
                ELSE Undefined("OutOfModel")

RECURSIVE ValueOfTree(_)
ValueOfTree(tree) ==
    CASE tree.node = "number" -> ValueNumber(tree.value, FALSE)
      [] tree.node = "minus" ->
           LET operand == ValueOfTree(tree.operand)
           IN  IF operand.type = "UNDEFINED" THEN operand
               ELSE ValueNumber(-operand.data, operand.float)
      [] tree.node = "binary" ->
           ValueOfOperation(tree.operator, ValueOfTree(tree.left),
                            ValueOfTree(tree.right))

\* The run of r = <expression>; has ended as the value of the tree says.
EndsWith(value) ==
    CASE value.type = "NUMBER" ->
           /\ pc = "done"
           /\ error = NoError
           /\ "r" \in DOMAIN variables
           /\ variables["r"] = value
      [] value.kind = "OutOfModel" -> pc = "cutoff"
      [] OTHER -> pc = "failed" /\ error.kind = value.kind

\* The runs of a group of cases: the source text of each case with the
\* tree of the case.
RunsOf(cases) ==
    {[source |-> AssignmentText(c.text), tree |-> c.tree] : c \in cases}

\* The runs by first operand and first operator, the ways in which their
\* texts begin (r = x op1 ..., r = (x op1 ... and r = -(x op1 ...), and the
\* runs with a subscript.
PrecedenceRuns ==
    [x \in Terms, operator1 \in Operators |->
        [beginnings |->
             {<<"r", " ", "=", " ">> \o opening \o x.text \o <<" ">>
              \o TokenTypeText(operator1) \o <<" ">> :
                  opening \in {<<>>, <<"(">>, <<"-", "(">>}},
         runs |-> RunsOf(CasesFrom(x, operator1))]]

PostfixRuns == RunsOf(PostfixCases)

ExampleRuns ==
    {[source |-> AssignmentText(example.text), value |-> example.value] :
         example \in Examples}

Begins(beginnings) ==
    \E beginning \in beginnings :
        /\ Len(source) >= Len(beginning)
        /\ SubSeq(source, 1, Len(beginning)) = beginning

\* The parser accepts the text of the run, and the run ends as the value
\* of its tree says.
Conforms(run) ==
    source = run.source =>
        /\ index = 0 => error = NoError
        /\ index = 1 => EndsWith(ValueOfTree(run.tree))

\* C4: the parser accepts every expression of the cases, and the value that
\* the evaluator gives it is the value of the tree that the precedence
\* order gives: and/or, then comparison, then additive, then
\* multiplicative operators, then unary minus, then subscripts, the
\* operators of one level from left to right, parentheses first.  In
\* particular 2 + 3 * 4 is 14, (2 + 3) * 4 is 20 and -2 * -3 is 6.
TheoremPrecedence ==
    /\ \A group \in DOMAIN PrecedenceRuns :
           Begins(PrecedenceRuns[group].beginnings) =>
               \A run \in PrecedenceRuns[group].runs : Conforms(run)
    /\ \A run \in PostfixRuns : Conforms(run)
    /\ \A run \in ExampleRuns :
           source = run.source =>
               /\ index = 0 => error = NoError
               /\ index = 1 => EndsWith(run.value)

\* r = 2 + 3 * 4; has run: r is 14, and not 20.
WitnessPrecedence ==
    /\ source = AssignmentText(Chain(Leaf(2), "+", Leaf(3), "*", Leaf(4)).text)
    /\ pc = "done"
    /\ variables["r"] = ValueNumber(14, FALSE)

(***************************************************************************)
(* Operations that take every Value.  Every program binds x and y to two   *)
(* values, among them lists that contain themselves or each other, and     *)
(* then runs one statement on them: a comparison with == or !=, r = str(x) *)
(* or r = print(x).                                                        *)
(***************************************************************************)
\* def f() { }, then the bindings of x and y.
TotalPrefixes ==
    { << Do(Assign(Id("x"), a)), Do(Assign(Id("y"), b)) >> :
          a \in {Num(1), Str(<<"a">>), NoneLiteral, Id("f"), Id("len"),
                 ListOf(<<Num(1), Str(<<"a">>), NoneLiteral, Id("f")>>),
                 ListOf(<<ListOf(<<Num(1)>>), ListOf(<<>>)>>),
                 ListOf(<<Id("print")>>)},
          b \in {Num(1), ListOf(<<Num(1)>>), Id("len")} }
    \cup
    { \* x contains itself, through a subscript assignment
      << Do(Assign(Id("x"), ListOf(<<Num(1)>>))),
         Do(Assign(Sub(Id("x"), Num(0)), Id("x"))),
         Do(Assign(Id("y"), Id("x"))) >>,
      \* x is [1, x] through append(); y is [1, 2]
      << Do(Assign(Id("x"), ListOf(<<Num(1)>>))),
         Do(Call(Id("append"), <<Id("x"), Id("x")>>)),
         Do(Assign(Id("y"), ListOf(<<Num(1), Num(2)>>))) >>,
      \* x is [1, x]; y is 5
      << Do(Assign(Id("x"), ListOf(<<Num(1)>>))),
         Do(Call(Id("append"), <<Id("x"), Id("x")>>)),
         Do(Assign(Id("y"), Num(5))) >>,
      \* x and y contain each other
      << Do(Assign(Id("x"), ListOf(<<Num(0)>>))),
         Do(Assign(Id("y"), ListOf(<<Num(0)>>))),
         Do(Assign(Sub(Id("x"), Num(0)), Id("y"))),
         Do(Assign(Sub(Id("y"), Num(0)), Id("x"))) >>,
      \* x and y are two lists, each of which contains itself
      << Do(Assign(Id("x"), ListOf(<<>>))),
         Do(Call(Id("append"), <<Id("x"), Id("x")>>)),
         Do(Assign(Id("y"), ListOf(<<>>))),
         Do(Call(Id("append"), <<Id("y"), Id("y")>>)) >> }

\* r = x == y; r = x != y; r = y == x; r = x == x;
TotalComparisons ==
    { Do(Assign(Id("r"), Bin(Id(a), operator, Id(b)))) :
          a \in {"x", "y"}, b \in {"x", "y"}, operator \in {"==", "!="} }

\* r = str(x); r = str(y);
TotalConversions ==
    { Do(Assign(Id("r"), Call(Id("str"), <<Id(a)>>))) : a \in {"x", "y"} }

\* r = print(x); r = print(x, y);
TotalPrints ==
    { Do(Assign(Id("r"), Call(Id("print"), arguments))) :
          arguments \in {<<Id("x")>>, <<Id("x"), Id("y")>>} }

TotalPrograms ==
    { <<Def("f", <<>>, <<>>, 1)>> \o prefix \o <<statement>> :
          prefix \in TotalPrefixes,
          statement \in TotalComparisons \cup TotalConversions \cup TotalPrints }

InitTotal == InitEvaluator(TotalPrograms, EvaluatorSources)

SpecTotal == InitTotal /\ [][NextEvaluator]_vars

\* The last statement of the program has been evaluated.
LastRan == index = Len(program) /\ pc \in {"done", "failed"}

\* C11: when a comparison with == or != has been evaluated, it has not
\* failed, and its value is the Number 1 or the Number 0, whatever the
\* variants of its operands, and also when they are lists that contain
\* themselves or each other.
ClaimEqualNeverFails ==
    (LastRan /\ last.statement \in TotalComparisons) =>
        /\ error = NoError
        /\ variables["r"] \in {ValueNumber(0, FALSE), ValueNumber(1, FALSE)}

\* x = [1]; x[0] = x; y = x; r = x == y; has run: x is a list whose item
\* is x itself, and the comparison ended in a RecursionError.
WitnessEqualNeverFails ==
    /\ LastRan
    /\ last.statement = Do(Assign(Id("r"), Bin(Id("x"), "==", Id("y"))))
    /\ variables["x"].type = "LIST"
    /\ heap[variables["x"].data] = <<variables["x"]>>
    /\ variables["y"] = variables["x"]
    /\ error.kind = "RecursionError"

\* C20: when r = str(x) has been evaluated, it has not failed and r is a
\* String; when r = print(...) has been evaluated, it has not failed and
\* r is None; for values of every variant.
ClaimToStringTotal ==
    /\ (LastRan /\ last.statement \in TotalConversions) =>
           /\ error = NoError
           /\ variables["r"].type = "STRING"
    /\ (LastRan /\ last.statement \in TotalPrints) =>
           /\ error = NoError
           /\ variables["r"] = ValueNone

\* x = len; ...; r = str(x); has run: x is a BuiltinFunction, and the
\* conversion ended in an AttributeError.
WitnessToStringTotal ==
    /\ LastRan
    /\ last.statement = Do(Assign(Id("r"), Call(Id("str"), <<Id("x")>>)))
    /\ variables["x"] = ValueBuiltinFunction("len")
    /\ error.kind = "AttributeError"

\* Without a BuiltinFunction and without a list that contains itself among
\* the values, str() yields a String and print() yields None.
RECURSIVE Convertible(_, _)
Convertible(value, above) ==
    CASE value.type = "BUILTIN_FUNCTION" -> FALSE
      [] value.type = "LIST" ->
           /\ value.data \notin above
           /\ \A i \in DOMAIN heap[value.data] :
                 Convertible(heap[value.data][i], above \cup {value.data})
      [] OTHER -> TRUE

ToStringOfConvertible ==
    /\ (LastRan /\ last.statement \in TotalConversions) =>
           LET argument ==
                   last.before.variables[
                       last.statement.expression.expression2
                           .expression_list[1].token.value]
           IN  IF Convertible(argument, {})
               THEN error = NoError /\ variables["r"].type = "STRING"
               ELSE error.kind \in {"AttributeError", "RecursionError"}

(***************************************************************************)
(* Subscripts.  Every program binds x to a collection or to a value that   *)
(* has no items, i to an index, and then reads x[i] or assigns to x[i].    *)
(***************************************************************************)
SubscriptCollections ==
    { ListOf(<<Num(7), Num(8)>>), ListOf(<<>>), Str(<<"a", "b">>), Num(5),
      NoneLiteral, Id("len") }

\* 2 / 2, 0 / 2 and 10 / 2 are the floats 1.0, 0.0 and 5.0.
SubscriptIndices ==
    { Num(0), Num(1), Num(2), Num(5), Neg(Num(1)),
      Bin(Num(2), "/", Num(2)), Bin(Num(0), "/", Num(2)),
      Bin(Num(10), "/", Num(2)),
      Str(<<"a">>), NoneLiteral, ListOf(<<Num(0)>>) }

SubscriptRead == Do(Assign(Id("r"), Sub(Id("x"), Id("i"))))

SubscriptWrite == Do(Assign(Sub(Id("x"), Id("i")), Num(9)))

SubscriptPrograms ==
    { << Do(Assign(Id("x"), collection)), Do(Assign(Id("i"), i)), statement >> :
          collection \in SubscriptCollections, i \in SubscriptIndices,
          statement \in {SubscriptRead, SubscriptWrite} }

InitSubscript == InitEvaluator(SubscriptPrograms, EvaluatorSources)

SpecSubscript == InitSubscript /\ [][NextEvaluator]_vars

\* The failure is the diagnostic with this message.
FailsWith(message) == error.kind = "Exception" /\ error.message = message

IndexErrorOf(i) == FailsWith("Index '" \o ToString(i) \o "' is out of range.")

TypeErrorOf(x, i) ==
    FailsWith("Type error. '" \o x.type \o "'['" \o i.type
              \o "'] cannot be evaluated.")

\* The items of a List or the characters of a String.
ItemsOf(x) == IF x.type = "LIST" THEN last.before.heap[x.data] ELSE x.data

\* What the subscript of the last statement must have done, with x and i
\* as they were before it; `subscriptable` are the variants of x that the
\* statement accepts.  An index that is a float with an integer value may
\* be taken for an integer or for a Number that is not integer-valued.
SubscriptOutcome(x, i, subscriptable, success(_)) ==
    IF x.type \in subscriptable /\ i.type = "NUMBER"
    THEN IF 0 <= i.data /\ i.data < Len(ItemsOf(x))
         THEN IF ~i.float THEN error = NoError /\ success(i.data + 1)
              ELSE \/ error = NoError /\ success(i.data + 1)
                   \/ TypeErrorOf(x, i)
         ELSE IF ~i.float THEN IndexErrorOf(i.data)
              ELSE IndexErrorOf(i.data) \/ TypeErrorOf(x, i)
    ELSE TypeErrorOf(x, i)

\* C12: a read x[i] of a List or String and an assignment x[i] = v to a
\* List succeed for every integer index within [0, len), a String read
\* yielding the one-character String; they fail with the index error that
\* names the index when the integer index is outside [0, len), and with
\* the type error in every other case.
ClaimSubscript ==
    LET x == last.before.variables["x"]
        i == last.before.variables["i"]
        read(k) ==
            variables["r"] = IF x.type = "LIST" THEN ItemsOf(x)[k]
                             ELSE ValueString(<<ItemsOf(x)[k]>>)
        written(k) ==
            heap[x.data] = [ItemsOf(x) EXCEPT ![k] = ValueNumber(9, FALSE)]
    IN  /\ (LastRan /\ last.statement = SubscriptRead) =>
               SubscriptOutcome(x, i, {"LIST", "STRING"}, read)
        /\ (LastRan /\ last.statement = SubscriptWrite) =>
               SubscriptOutcome(x, i, {"LIST"}, written)

\* x = [7, 8]; i = 2 / 2; r = x[i]; has run on a source whose line ends
\* with a newline: i is 1.0, within [0, 2), and the read failed with the
\* message of an index out of range.
WitnessSubscript ==
    /\ LastRan
    /\ source = <<"#", "\n">>
    /\ last.statement = SubscriptRead
    /\ variables["x"].type = "LIST"
    /\ heap[variables["x"].data] = <<ValueNumber(7, FALSE), ValueNumber(8, FALSE)>>
    /\ variables["i"] = ValueNumber(1, TRUE)
    /\ IndexErrorOf(1)

\* The same with the integer indices only: the classification of the claim
\* holds on a source whose line ends with a newline.
SubscriptOfIntegers ==
    LET x == last.before.variables["x"]
        i == last.before.variables["i"]
        read(k) ==
            variables["r"] = IF x.type = "LIST" THEN ItemsOf(x)[k]
                             ELSE ValueString(<<ItemsOf(x)[k]>>)
        written(k) ==
            heap[x.data] = [ItemsOf(x) EXCEPT ![k] = ValueNumber(9, FALSE)]
    IN  (LastRan /\ source = <<"#", "\n">>
         /\ ~(i.type = "NUMBER" /\ i.float)) =>
            /\ last.statement = SubscriptRead =>
                   SubscriptOutcome(x, i, {"LIST", "STRING"}, read)
            /\ last.statement = SubscriptWrite =>
                   SubscriptOutcome(x, i, {"LIST"}, written)

(***************************************************************************)
(* Calls.  Every program defines f(a, b), binds x to a value, in some      *)
(* programs binds a beforehand, and then calls f or x with 0 to 3          *)
(* arguments.                                                              *)
(***************************************************************************)
\* def f(a, b) { t = 1; return a; }
CallFunction ==
    Def("f", <<"a", "b">>,
        << Do(Assign(Id("t"), Num(1))), StatementReturn(Id("a")) >>, 1)

CallArguments == {<<>>, <<Num(7)>>, <<Num(7), Num(8)>>, <<Num(7), Num(8), Num(9)>>}

\* r = f(...);
CallsOfFunction ==
    {Do(Assign(Id("r"), Call(Id("f"), arguments))) : arguments \in CallArguments}

\* r = x(...);
CallsOfValue ==
    {Do(Assign(Id("r"), Call(Id("x"), arguments))) : arguments \in CallArguments}

CallPrograms ==
    { <<CallFunction, Do(Assign(Id("x"), value))>> \o before \o <<statement>> :
          value \in {Num(1), Str(<<"f">>), ListOf(<<Id("f")>>), NoneLiteral},
          before \in {<<>>, <<Do(Assign(Id("a"), Num(5)))>>},
          statement \in CallsOfFunction \cup CallsOfValue }

InitCall == InitEvaluator(CallPrograms, EvaluatorSources)

SpecCall == InitCall /\ [][NextEvaluator]_vars

\* The call of the last statement has entered no function.
NoBodyRun == \A k \in DOMAIN last.trace : last.trace[k].ev # "call"

\* The last statement has changed no variable and no list.
NothingBound ==
    /\ variables = last.before.variables
    /\ heap = last.before.heap

\* C13: a call of f(a, b) with 0, 1 or 3 arguments fails with the
\* diagnostic that names the function, the 2 expected and the provided
\* arguments; no name has been bound and no statement of the body has
\* been executed.
ClaimArity ==
    \A arguments \in CallArguments \ {<<Num(7), Num(8)>>} :
        (LastRan
         /\ last.statement = Do(Assign(Id("r"), Call(Id("f"), arguments)))) =>
            /\ FailsWith("The function 'f' expects 2 arguments but "
                         \o ToString(Len(arguments))
                         \o " arguments were provided.")
            /\ NothingBound
            /\ NoBodyRun

\* r = f(7); has run on a source whose line ends with a newline: the call
\* failed with Python's TypeError for the % of the message, and nothing
\* has been bound.
WitnessArity ==
    /\ LastRan
    /\ source = <<"#", "\n">>
    /\ last.statement = Do(Assign(Id("r"), Call(Id("f"), <<Num(7)>>)))
    /\ error.kind = "TypeError"
    /\ NothingBound
    /\ NoBodyRun

\* A call with a wrong number of arguments fails, binds nothing and runs
\* no statement of the body; a call with two arguments runs the body.
ArityWithoutMessage ==
    \A arguments \in CallArguments :
        (LastRan
         /\ last.statement = Do(Assign(Id("r"), Call(Id("f"), arguments)))) =>
            IF Len(arguments) = 2
            THEN /\ error = NoError
                 /\ variables["r"] = ValueNumber(7, FALSE)
                 /\ variables["t"] = ValueNumber(1, FALSE)
                 /\ ~NoBodyRun
            ELSE error # NoError /\ NothingBound /\ NoBodyRun

\* C14: a call of x, a Number, String, List or None, fails with a
\* diagnostic that carries the line of the call, and no function body has
\* been executed.
ClaimNotCallable ==
    (LastRan /\ last.statement \in CallsOfValue) =>
        /\ error.kind = "Exception"
        /\ error.line_number = last.statement.expression.expression2
                                   .debug_info.line_number
        /\ NoBodyRun

\* x = 1; r = x(); has run: the call failed with Python's
\* UnboundLocalError, and no function body has been executed.
WitnessNotCallable ==
    /\ LastRan
    /\ last.statement = Do(Assign(Id("r"), Call(Id("x"), <<>>)))
    /\ variables["x"] = ValueNumber(1, FALSE)
    /\ error.kind = "UnboundLocalError"
    /\ NoBodyRun

(***************************************************************************)
(* Diagnostics.  Every source holds one statement that the tokenizer, the  *)
(* parser or the evaluator rejects through DebugInfo.raise_exception, on   *)
(* its first line or after other lines, followed by a newline, by nothing, *)
(* or by a newline and another line.                                       *)
(***************************************************************************)
\* The rejected statements, each with the message of its diagnostic.
DiagnosticStatements ==
    { \* x = 1 ? 2;
      [text |-> <<"x", " ", "=", " ", "1", " ", "?", " ", "2", ";">>,
       message |-> "Undefined token found."],
      \* x = 1 2;
      [text |-> <<"x", " ", "=", " ", "1", " ", "2", ";">>,
       message |-> "Unexpected token found. We were expecting ';' but found 'number'."],
      \* if (1) x = 1;
      [text |-> <<"i", "f", " ", "(", "1", ")", " ", "x", " ", "=", " ", "1",
                  ";">>,
       message |-> "Unexpected token found. We were expecting '{' but found 'identifier'."],
      \* x = y;
      [text |-> <<"x", " ", "=", " ", "y", ";">>,
       message |-> "Undefined variable. 'y' is not defined."],
      \* x = -"a";
      [text |-> <<"x", " ", "=", " ", "-", "\"", "a", "\"", ";">>,
       message |-> "Type error. -'STRING' cannot be evaluated"],
      \* x = [1][5];
      [text |-> <<"x", " ", "=", " ", "[", "1", "]", "[", "5", "]", ";">>,
       message |-> "Index '5' is out of range."],
      \* assert(0, "no");
      [text |-> <<"a", "s", "s", "e", "r", "t", "(", "0", ",", " ", "\"", "n",
                  "o", "\"", ")", ";">>,
       message |-> "assert FAILED: no"],
      \* x = "abc
      [text |-> <<"x", " ", "=", " ", "\"", "a", "b", "c">>,
       message |-> "Invalid string found."] }

\* What stands before the statement, with the number of its lines.
DiagnosticPrefixes ==
    { [text |-> <<>>, lines |-> 0],
      \* a = 1;
      [text |-> <<"a", " ", "=", " ", "1", ";", "\n">>, lines |-> 1],
      \* # c
      \* (an empty line)
      [text |-> <<"#", " ", "c", "\n", "\n">>, lines |-> 2] }

\* What stands after the statement: a newline, nothing, or a newline and
\* the line b = 2;
DiagnosticSuffixes ==
    { <<"\n">>, <<>>, <<"\n", "b", " ", "=", " ", "2", ";", "\n">> }

\* The sources, each with the diagnostic that its statement calls for: the
\* message and the number of the line on which the statement stands.
DiagnosticCases ==
    { [source |-> prefix.text \o statement.text \o suffix,
       text |-> statement.text,
       message |-> statement.message,
       line_number |-> prefix.lines + 1] :
          prefix \in DiagnosticPrefixes, statement \in DiagnosticStatements,
          suffix \in DiagnosticSuffixes }

DiagnosticSources == {c.source : c \in DiagnosticCases}

InitDiagnostic == InitPipeline(DiagnosticSources)

SpecDiagnostic == InitDiagnostic /\ [][NextPipeline]_vars

\* The text of line n of the source, without its newline.
LineOf(src, n) ==
    LET inside == {k \in 1 .. Len(src) :
                       /\ src[k] # "\n"
                       /\ Cardinality({j \in 1 .. k - 1 : src[j] = "\n"}) = n - 1}
    IN  IF inside = {} THEN <<>>
        ELSE SubSeq(src, CHOOSE k \in inside : \A j \in inside : k <= j,
                         CHOOSE k \in inside : \A j \in inside : k >= j)

\* The run of the source of the case has failed with the diagnostic of the
\* case: its message, the number of its line and the text of that line.
Diagnosed(c) ==
    (source = c.source /\ pc = "failed") =>
        error = [kind |-> "Exception", message |-> c.message,
                 line_number |-> c.line_number,
                 line |-> LineOf(c.source, c.line_number)]

\* C15: a failure raised through a diagnostic context carries the message,
\* the number of the line and the text of that line without its newline,
\* wherever the rejected statement stands, also on a last line that no
\* newline ends.
ClaimDiagnostic == \A c \in DiagnosticCases : Diagnosed(c)

\* x = y without a newline after it has failed in the evaluator: the
\* failure is an AttributeError, not the diagnostic of the undefined
\* variable.
WitnessDiagnostic ==
    /\ source = <<"x", " ", "=", " ", "y", ";">>
    /\ pc = "failed"
    /\ index = 1
    /\ error.kind = "AttributeError"

\* Where a newline ends the line of the statement, and the statement is not
\* the string that no quote ends, the diagnostic is the one of the case.
DiagnosticOnEndedLines ==
    \A c \in DiagnosticCases :
        (Len(c.source) > Len(c.text)
         /\ SubSeq(c.source, Len(c.source) - Len(c.text) + 1, Len(c.source))
                # c.text
         /\ c.message # "Invalid string found.") => Diagnosed(c)

(***************************************************************************)
(* Syntax errors.  Sources in which a token that the grammar calls for is  *)
(* missing, because another token stands in its place or because the       *)
(* source ends; sources with two comparisons or two assignments in a row;  *)
(* and well-formed sources.  Each stands on line 1 or 2, followed by a     *)
(* newline or by nothing.                                                  *)
(***************************************************************************)
\* "Unexpected token found. We were expecting 'X' but found 'Y'."
Expectation(expecting, found) ==
    "Unexpected token found. We were expecting '" \o expecting
    \o "' but found '" \o found \o "'."

\* Another token stands where the grammar calls for `expecting`.
MisplacedStatements ==
    { \* x = 1 2;
      [text |-> <<"x", " ", "=", " ", "1", " ", "2", ";">>,
       expecting |-> ";", found |-> "number"],
      \* if 1) { }
      [text |-> <<"i", "f", " ", "1", ")", " ", "{", " ", "}">>,
       expecting |-> "(", found |-> "number"],
      \* def f(a b) { }
      [text |-> <<"d", "e", "f", " ", "f", "(", "a", " ", "b", ")", " ", "{",
                  " ", "}">>,
       expecting |-> ",", found |-> "identifier"],
      \* while (1) x;
      [text |-> <<"w", "h", "i", "l", "e", " ", "(", "1", ")", " ", "x", ";">>,
       expecting |-> "{", found |-> "identifier"],
      \* x = (1;
      [text |-> <<"x", " ", "=", " ", "(", "1", ";">>,
       expecting |-> ")", found |-> ";"],
      \* x[1;
      [text |-> <<"x", "[", "1", ";">>,
       expecting |-> "]", found |-> ";"],
      \* x = ;
      [text |-> <<"x", " ", "=", " ", ";">>,
       expecting |-> "identifier", found |-> ";"] }

\* The source ends where the grammar calls for a token.
EndedStatements ==
    { \* x = 1
      <<"x", " ", "=", " ", "1">>,
      \* 1 +
      <<"1", " ", "+">>,
      \* if (1) { x = 1;
      <<"i", "f", " ", "(", "1", ")", " ", "{", " ", "x", " ", "=", " ",
          "1", ";">>,
      \* def f(
      <<"d", "e", "f", " ", "f", "(">>,
      \* x = (1
      <<"x", " ", "=", " ", "(", "1">>,
      \* x = 1 and
      <<"x", " ", "=", " ", "1", " ", "a", "n", "d">>,
      \* f(1,
      <<"f", "(", "1", ",">> }

WellFormedSources ==
    { \* x = 1;
      <<"x", " ", "=", " ", "1", ";", "\n">>,
      \* if (1) { x = 1; }
      \* ;
      <<"i", "f", " ", "(", "1", ")", " ", "{", " ", "x", " ", "=", " ",
          "1", ";", " ", "}", "\n", ";", "\n">>,
      \* def f(a, b) { }
      \* x = (1);
      <<"d", "e", "f", " ", "f", "(", "a", ",", " ", "b", ")", " ", "{",
          " ", "}", "\n", "x", " ", "=", " ", "(", "1", ")", ";", "\n">>,
      \* x = [1];
      \* x[0];
      <<"x", " ", "=", " ", "[", "1", "]", ";", "\n", "x", "[", "0", "]",
          ";", "\n">>,
      \* x = 1 and len(x, 1);
      <<"x", " ", "=", " ", "1", " ", "a", "n", "d", " ", "l", "e", "n",
          "(", "x", ",", " ", "1", ")", ";", "\n">> }

\* What stands before a statement, with the number of its lines, and what
\* stands after it.
SyntaxPrefixes ==
    { [text |-> <<>>, lines |-> 0],
      \* a = 1;
      [text |-> <<"a", " ", "=", " ", "1", ";", "\n">>, lines |-> 1] }

SyntaxSuffixes == { <<"\n">>, <<>> }

MisplacedCases ==
    { [source |-> prefix.text \o statement.text \o suffix,
       expecting |-> statement.expecting, found |-> statement.found,
       line_number |-> prefix.lines + 1, ended |-> suffix # <<>>] :
          prefix \in SyntaxPrefixes, statement \in MisplacedStatements,
          suffix \in SyntaxSuffixes }

EndedSources ==
    { prefix.text \o statement \o suffix :
          prefix \in SyntaxPrefixes, statement \in EndedStatements,
          suffix \in SyntaxSuffixes }

ComparisonOperators == {"<", ">", "<=", ">=", "==", "!="}

\* a op1 b op2 c; and (a op1 b) op2 c;
ChainedComparison(operator1, operator2) ==
    <<"a", " ">> \o TokenTypeText(operator1) \o <<" ", "b", " ">>
    \o TokenTypeText(operator2) \o <<" ", "c", ";">>

ParenthesisedComparison(operator1, operator2) ==
    <<"(", "a", " ">> \o TokenTypeText(operator1) \o <<" ", "b", ")", " ">>
    \o TokenTypeText(operator2) \o <<" ", "c", ";">>

ComparisonCases ==
    { [chained |-> ChainedComparison(operator1, operator2) \o suffix,
       parenthesised |-> ParenthesisedComparison(operator1, operator2) \o suffix,
       operator1 |-> operator1, operator2 |-> operator2,
       ended |-> suffix # <<>>] :
          operator1 \in ComparisonOperators, operator2 \in ComparisonOperators,
          suffix \in SyntaxSuffixes }

\* Statements with a second `=` after the right operand of the first, each
\* with the token that the parser finds where it expects the `;`.
ChainedAssignments ==
    { \* a = b = c;
      <<"a", " ", "=", " ", "b", " ", "=", " ", "c", ";">>,
      \* a = b = c = d;
      <<"a", " ", "=", " ", "b", " ", "=", " ", "c", " ", "=", " ", "d",
          ";">>,
      \* x[0] = y = 1;
      <<"x", "[", "0", "]", " ", "=", " ", "y", " ", "=", " ", "1", ";">>,
      \* a = 1 + 2 = 3;
      <<"a", " ", "=", " ", "1", " ", "+", " ", "2", " ", "=", " ", "3",
          ";">>,
      \* a = b == c = d;
      <<"a", " ", "=", " ", "b", " ", "=", "=", " ", "c", " ", "=", " ",
          "d", ";">> }

AssignmentCases ==
    { [source |-> statement \o suffix, ended |-> suffix # <<>>] :
          statement \in ChainedAssignments, suffix \in SyntaxSuffixes }

SyntaxSources ==
    {c.source : c \in MisplacedCases} \cup EndedSources \cup WellFormedSources
    \cup {c.chained : c \in ComparisonCases}
    \cup {c.parenthesised : c \in ComparisonCases}
    \cup {c.source : c \in AssignmentCases}
    \cup {AssignmentOfAssignment}

InitSyntax == InitPipeline(SyntaxSources)

SpecSyntax == InitSyntax /\ [][NextPipeline]_vars

\* Parser.parse has returned or raised.
Parsed == pc # "parse"

\* The parser has failed with the diagnostic of an unexpected token.
ParseErrorOf(expecting, found, line_number) ==
    /\ pc = "failed"
    /\ index = 0
    /\ program = <<>>
    /\ error.kind = "Exception"
    /\ error.message = Expectation(expecting, found)
    /\ error.line_number = line_number

\* C16: where another token stands in the place of an expected one, parse
\* fails with the diagnostic 'expecting X but found Y' of that line; where
\* the source ends in the place of an expected token, parse fails with a
\* diagnostic as well; in neither case does it return a Program or fail in
\* another way.
ClaimParseError ==
    /\ \A c \in MisplacedCases :
           (source = c.source /\ Parsed) =>
               ParseErrorOf(c.expecting, c.found, c.line_number)
    /\ (source \in EndedSources /\ Parsed) =>
           /\ pc = "failed"
           /\ program = <<>>
           /\ error.kind = "Exception"
           /\ "line_number" \in DOMAIN error

\* x = 1 and a newline, without the `;`, has been parsed: the parser has
\* failed with Python's AttributeError for the token None.
WitnessParseError ==
    /\ source = <<"x", " ", "=", " ", "1", "\n">>
    /\ pc = "failed"
    /\ program = <<>>
    /\ error = NoTokenError

\* Where another token stands in the place of the expected one on a line
\* that a newline ends, the failure is the diagnostic of the claim.
ParseErrorOnEndedLines ==
    \A c \in MisplacedCases :
        (source = c.source /\ Parsed /\ c.ended) =>
            ParseErrorOf(c.expecting, c.found, c.line_number)

\* The program is the single statement (a op1 b) op2 c; : a comparison whose
\* left operand is the comparison a op1 b.
IsComparisonOfComparison(operator1, operator2) ==
    /\ Len(program) = 1
    /\ program[1].type = "EXPRESSION"
    /\ program[1].expression.type = "BINARY"
    /\ program[1].expression.token.type = operator2
    /\ program[1].expression.expression2.type = "IDENTIFIER"
    /\ program[1].expression.expression2.token.value = "c"
    /\ program[1].expression.expression1.type = "BINARY"
    /\ program[1].expression.expression1.token.type = operator1
    /\ program[1].expression.expression1.expression1.type = "IDENTIFIER"
    /\ program[1].expression.expression1.expression1.token.value = "a"
    /\ program[1].expression.expression1.expression2.type = "IDENTIFIER"
    /\ program[1].expression.expression1.expression2.token.value = "b"

\* C17: a op1 b op2 c; with two comparison operators is rejected with the
\* diagnostic of an unexpected op2 where the `;` is expected, and
\* (a op1 b) op2 c; is accepted as the comparison op2 whose left operand is
\* the comparison a op1 b.
ClaimComparisonChain ==
    \A c \in ComparisonCases :
        /\ (source = c.chained /\ Parsed) =>
               ParseErrorOf(";", c.operator2, 1)
        /\ (source = c.parenthesised /\ Parsed) =>
               IsComparisonOfComparison(c.operator1, c.operator2)

\* a < b < c; without a newline after it has been parsed: the parser has
\* rejected it, with the AttributeError of a last line that no newline
\* ends.
WitnessComparisonChain ==
    /\ source = ChainedComparison("<", "<")
    /\ pc = "failed"
    /\ program = <<>>
    /\ error.kind = "AttributeError"

\* On a line that a newline ends, the chain is rejected with the
\* diagnostic; the parenthesised form is accepted on every line.
ComparisonChainOnEndedLines ==
    \A c \in ComparisonCases :
        /\ (source = c.chained /\ Parsed /\ c.ended) =>
               ParseErrorOf(";", c.operator2, 1)
        /\ (source = c.chained /\ Parsed) => pc = "failed" /\ program = <<>>
        /\ (source = c.parenthesised /\ Parsed) =>
               IsComparisonOfComparison(c.operator1, c.operator2)

\* (a < b) < c; and a newline has been parsed into the comparison of a < b
\* with c.
ParenthesisedComparisonParsed ==
    /\ source = ParenthesisedComparison("<", "<") \o <<"\n">>
    /\ pc = "print"
    /\ IsComparisonOfComparison("<", "<")

RECURSIVE AssignsAssignment(_)
RECURSIVE AnyAssignsAssignment(_, _)

\* Some item of the list of expressions or statements has an Assignment
\* whose right operand is an Assignment.
AnyAssignsAssignment(nodes, i) ==
    IF i > Len(nodes) THEN FALSE
    ELSE AssignsAssignment(nodes[i]) \/ AnyAssignsAssignment(nodes, i + 1)

\* The expression or statement has an Assignment whose right operand is an
\* Assignment.
AssignsAssignment(node) ==
    CASE node.type = "ASSIGNMENT" ->
           \/ node.expression2.type = "ASSIGNMENT"
           \/ AssignsAssignment(node.expression1)
           \/ AssignsAssignment(node.expression2)
      [] node.type \in {"ANDOR", "BINARY", "SUBSCRIPTION"} ->
           \/ AssignsAssignment(node.expression1)
           \/ AssignsAssignment(node.expression2)
      [] node.type = "UNARY" -> AssignsAssignment(node.expression1)
      [] node.type = "LIST" -> AnyAssignsAssignment(node.expression_list, 1)
      [] node.type = "CALL" ->
           \/ AssignsAssignment(node.expression1)
           \/ AnyAssignsAssignment(node.expression_list, 1)
      [] node.type = "EXPRESSION" -> AssignsAssignment(node.expression)
      [] node.type \in {"IF", "WHILE"} ->
           \/ AssignsAssignment(node.expression)
           \/ AnyAssignsAssignment(node.statement_list1, 1)
           \/ (node.type = "IF" /\ ~node.statement_list2.none
               /\ AnyAssignsAssignment(node.statement_list2.list, 1))
      [] node.type = "RETURN" ->
           node.expression # Null /\ AssignsAssignment(node.expression)
      [] node.type = "FUNCTION" ->
           AnyAssignsAssignment(node.statement_list1, 1)
      [] OTHER -> FALSE

\* The source has no parenthesis.
Unparenthesised == \A k \in DOMAIN source : source[k] # "("

\* C18: a statement with a second `=` after the right operand of the first
\* is rejected with the diagnostic of an unexpected `=` where the `;` is
\* expected, and the program of a source without parentheses has no
\* Assignment whose right operand is an Assignment.
ClaimAssignmentChain ==
    /\ \A c \in AssignmentCases :
           (source = c.source /\ Parsed) => ParseErrorOf(";", "=", 1)
    /\ (Parsed /\ Unparenthesised) => ~AnyAssignsAssignment(program, 1)

\* a = b = c; without a newline after it has been parsed: the parser has
\* rejected it, with the AttributeError of a last line that no newline
\* ends.
WitnessAssignmentChain ==
    /\ source = <<"a", " ", "=", " ", "b", " ", "=", " ", "c", ";">>
    /\ pc = "failed"
    /\ program = <<>>
    /\ error.kind = "AttributeError"

\* On a line that a newline ends, the chain is rejected with the
\* diagnostic; it is rejected on every line, and no program of a source
\* without parentheses assigns an assignment, while a = (b = 1); does.
AssignmentChainOnEndedLines ==
    /\ \A c \in AssignmentCases :
           /\ (source = c.source /\ Parsed /\ c.ended) =>
                  ParseErrorOf(";", "=", 1)
           /\ (source = c.source /\ Parsed) => pc = "failed" /\ program = <<>>
    /\ (Parsed /\ Unparenthesised) => ~AnyAssignsAssignment(program, 1)
    /\ (Parsed /\ source = AssignmentOfAssignment) =>
           AnyAssignsAssignment(program, 1)

(***************************************************************************)
(* Operators of one and two characters.  The sources are all texts of up   *)
(* to MaxOperatorText characters over < > = ! 1 and the space.             *)
(***************************************************************************)
MaxOperatorText == 4

OperatorCharacters == {"<", ">", "=", "!", "1", " "}

OperatorSources ==
    UNION {[1 .. n -> OperatorCharacters] : n \in 0 .. MaxOperatorText}

InitOperators == InitTokenizer(OperatorSources)

SpecOperators == InitOperators /\ [][NextTokenizer]_vars

\* The number written with n digits 1.
RECURSIVE Repunit(_)
Repunit(n) == IF n = 0 THEN 0 ELSE 10 * Repunit(n - 1) + 1

\* The tokens of a text by the longest match at each position, from
\* position i on: [tokens, failed].  A `!` that no `=` follows is no token;
\* a run of the digit 1 is one number.
RECURSIVE LongestMatch(_, _)
LongestMatch(text, i) ==
    LET with(token, rest) == [rest EXCEPT !.tokens = <<token>> \o @]
        ones == CHOOSE n \in 0 .. Len(text) :
                    /\ \A k \in i .. i + n - 1 : text[k] = "1"
                    /\ (i + n > Len(text) \/ text[i + n] # "1")
        number == Repunit(ones)
    IN  IF i > Len(text) THEN [tokens |-> <<>>, failed |-> FALSE]
        ELSE IF text[i] = " " THEN LongestMatch(text, i + 1)
        ELSE IF text[i] = "1"
        THEN with(TokenNumber(number), LongestMatch(text, i + ones))
        ELSE IF i < Len(text) /\ text[i + 1] = "="
        THEN with(Token(text[i] \o "="), LongestMatch(text, i + 2))
        ELSE IF text[i] = "!" THEN [tokens |-> <<>>, failed |-> TRUE]
        ELSE with(Token(text[i]), LongestMatch(text, i + 1))

\* C19: the tokens that have been read are the first tokens of the longest
\* match, and at the end they are all of them: <=, >=, == and != are one
\* token each, never < > = or ! followed by =; a < > or = that no =
\* follows is the token of one character; and === is == followed by =.
TheoremTwoCharacterOperators ==
    LET expected == LongestMatch(source, 1)
    IN  /\ Len(tokens) <= Len(expected.tokens)
        /\ tokens = SubSeq(expected.tokens, 1, Len(tokens))
        /\ pc = "done" => tokens = expected.tokens /\ ~expected.failed
        /\ pc = "failed" => tokens = expected.tokens /\ expected.failed
        /\ \A k \in 1 .. Len(tokens) - 1 :
               tokens[k].type \in {"<", ">", "="} /\ tokens[k + 1].type = "=" =>
                   \E j \in 1 .. Len(source) - 1 :
                       source[j] \in {"<", ">", "="} /\ source[j + 1] = " "
        /\ (pc = "done" /\ source = <<"<", "=">>) => tokens = <<Token("<=")>>
        /\ (pc = "done" /\ source = <<">", "=">>) => tokens = <<Token(">=")>>
        /\ (pc = "done" /\ source = <<"=", "=">>) => tokens = <<Token("==")>>
        /\ (pc = "done" /\ source = <<"!", "=">>) => tokens = <<Token("!=")>>
        /\ (pc = "done" /\ source = <<"<", " ", "=">>) =>
               tokens = <<Token("<"), Token("=")>>
        /\ (pc = "done" /\ source = <<"=", "=", "=">>) =>
               tokens = <<Token("=="), Token("=")>>

\* === has been read to its end: the tokens are == and =.
WitnessTwoCharacterOperators ==
    /\ source = <<"=", "=", "=">>
    /\ pc = "done"
    /\ tokens = <<Token("=="), Token("=")>>

(***************************************************************************)
(* The bookkeeping of the tokenizer: lines and the cursor.  The sources    *)
(* are all texts of up to MaxLexerText characters over the newline, the    *)
(* space, # " a 1 and =.                                                   *)
(***************************************************************************)
MaxLexerText == 4

LexerCharacters == {"\n", " ", "#", "\"", "a", "1", "="}

LexerSources == UNION {[1 .. n -> LexerCharacters] : n \in 0 .. MaxLexerText}

InitLexer == InitTokenizer(LexerSources)

SpecLexer == InitLexer /\ [][NextCaller]_vars

\* The newlines among the first n characters of the source, as indices of
\* the character after each of them.
LineStarts(n) == {k \in 1 .. n : source[k] = "\n"}

\* The largest of a set of indices, 0 for none.
Latest(starts) ==
    IF starts = {} THEN 0 ELSE CHOOSE k \in starts : \A j \in starts : j <= k

\* read_token has returned without an exception, and what it consumed is
\* the source up to __index.
Returned == pc \in {"tokenize", "done"}

\* C21: after any calls of read_token that returned, line_number is 1 plus
\* the number of newlines consumed, and line_start_index is the index of
\* the character after the last consumed newline, 0 if there is none.
ClaimLineTracking ==
    Returned =>
        /\ tokenizer.line_number = 1 + Cardinality(LineStarts(tokenizer.index))
        /\ tokenizer.line_start_index = Latest(LineStarts(tokenizer.index))

\* A string literal with a newline after its first character has been read.
WitnessLineTracking ==
    /\ Returned
    /\ Len(tokens) = 1
    /\ tokens[1].type = "string"
    /\ \E k \in 2 .. Len(tokens[1].value) : tokens[1].value[k] = "\n"

\* The line number is as claimed in every case.
LineNumberTracked ==
    Returned =>
        tokenizer.line_number = 1 + Cardinality(LineStarts(tokenizer.index))

\* No newline of the source up to __index is inside a string literal after
\* the first character of the literal.
RECURSIVE NewlinesOutsideStrings(_, _)
NewlinesOutsideStrings(i, inside) ==
    IF i > tokenizer.index THEN TRUE
    ELSE IF source[i] = "\"" THEN NewlinesOutsideStrings(i + 1, ~inside)
    ELSE IF source[i] = "#" /\ ~inside
    THEN NewlinesOutsideStrings(skip_comment(source, i) + 1, FALSE)
    ELSE /\ (inside /\ source[i] = "\n") => source[i - 1] = "\""
         /\ NewlinesOutsideStrings(i + 1, inside)

\* The line start is as claimed wherever the newlines were consumed as
\* whitespace, at the end of a comment, or first in a string literal.
LineStartOutsideStrings ==
    (Returned /\ NewlinesOutsideStrings(1, FALSE)) =>
        tokenizer.line_start_index = Latest(LineStarts(tokenizer.index))


\* C30: __index is always within 0 .. len(source) and never decreases; a
\* call of read_token that returns a token has advanced __index by at least
\* one character; and after read_token has returned None, a later call
\* returns None again and changes neither __index nor line_number nor
\* line_start_index.
TheoremCursor ==
    /\ [](tokenizer.index \in 0 .. Len(source))
    /\ [][/\ tokenizer'.index >= tokenizer.index
          /\ (Len(tokens') > Len(tokens) /\ tokens'[Len(tokens')] # NoToken) =>
                 tokenizer'.index >= tokenizer.index + 1
          /\ pc = "done" =>
                 /\ pc' = "done"
                 /\ tokens' = Append(tokens, NoToken)
                 /\ tokenizer' = tokenizer]_vars

\* Tokens have been read up to the end of a source with a string literal,
\* and read_token has been called MaxCallsAtEnd times after that.
WitnessCursor ==
    /\ pc = "done"
    /\ CallsAtEnd = MaxCallsAtEnd
    /\ Len(tokens) >= CallsAtEnd + 2
    /\ tokens[1].type = "string"
    /\ tokenizer.index = Len(source)

(***************************************************************************)
(* The frame of list[index] = value.  Every program binds x to a           *)
(* collection, y to x, z to another list and i to an index, and then runs  *)
(* x[i] = v for a v whose evaluation changes no list.                      *)
(***************************************************************************)
StoreCollections ==
    { ListOf(<<Num(7), Num(8)>>), ListOf(<<>>),
      ListOf(<<ListOf(<<Num(1)>>), Num(2)>>), Str(<<"a", "b">>), Num(5) }

StoreIndices ==
    { Num(0), Num(1), Num(2), Neg(Num(1)), Bin(Num(2), "/", Num(2)),
      Str(<<"a">>), NoneLiteral }

StoredExpressions ==
    { Num(9), Str(<<"s">>), Id("x"), Id("z"), ListOf(<<Num(1)>>) }

StoreOf(v) == Do(Assign(Sub(Id("x"), Id("i")), v))

StorePrograms ==
    { << Do(Assign(Id("x"), collection)), Do(Assign(Id("y"), Id("x"))),
         Do(Assign(Id("z"), ListOf(<<Num(3)>>))), Do(Assign(Id("i"), i)),
         StoreOf(v) >> :
          collection \in StoreCollections, i \in StoreIndices,
          v \in StoredExpressions }

InitStore == InitEvaluator(StorePrograms, EvaluatorSources)

SpecStore == InitStore /\ [][NextEvaluator]_vars

\* x[i] = v was the last statement, and x was a List before it.
Stored(v) ==
    /\ LastRan
    /\ last.statement = StoreOf(v)
    /\ last.before.variables["x"].type = "LIST"

\* The value of v in the state before the statement; a list display makes
\* a new list, the next of the heap.
ValueStored(v) ==
    IF v.type = "IDENTIFIER" THEN last.before.variables[v.token.value]
    ELSE IF v.type = "LIST" THEN ValueList(Len(last.before.heap) + 1)
    ELSE IF v.token.type = "number" THEN ValueNumber(v.token.value, FALSE)
    ELSE ValueString(v.token.value)

\* C22: a successful x[i] = v changes exactly position i of the list's
\* storage, which y shares, keeps its length and its other positions and
\* every other list, changes no binding and returns v; a failed one leaves
\* the storage of the list as it was.
TheoremStoreFrame ==
    \A v \in StoredExpressions :
        LET x == last.before.variables["x"]
            i == last.before.variables["i"]
            old == last.before.heap
        IN  Stored(v) =>
                IF error = NoError
                THEN /\ i.type = "NUMBER"
                     /\ i.data \in 0 .. Len(old[x.data]) - 1
                     /\ Len(heap[x.data]) = Len(old[x.data])
                     /\ heap[x.data][i.data + 1] = ValueStored(v)
                     /\ \A k \in 1 .. Len(old[x.data]) :
                            k # i.data + 1 => heap[x.data][k] = old[x.data][k]
                     /\ \A ref \in 1 .. Len(old) :
                            ref # x.data => heap[ref] = old[ref]
                     /\ variables = last.before.variables
                     /\ variables["y"] = x
                     /\ last.value = ValueStored(v)
                ELSE /\ heap[x.data] = old[x.data]
                     /\ variables = last.before.variables

\* x = [[1], 2]; y = x; z = [3]; i = 1; x[i] = x; has run: position 1 of
\* the list that x and y share is the list itself, position 0 is as before.
WitnessStoreFrame ==
    /\ Stored(Id("x"))
    /\ error = NoError
    /\ last.before.variables["i"] = ValueNumber(1, FALSE)
    /\ Len(last.before.heap[variables["x"].data]) = 2
    /\ last.before.heap[variables["x"].data][1].type = "LIST"
    /\ heap[variables["y"].data][2] = variables["x"]
    /\ heap[variables["y"].data][1] = last.before.heap[variables["x"].data][1]

(***************************************************************************)
(* List + List.  Every program binds a and b to lists and c to a sum of    *)
(* lists, and then runs up to MaxConcatSteps statements that append to or  *)
(* store into a, b or c.                                                   *)
(***************************************************************************)
MaxConcatSteps == 2

ConcatNames == {"a", "b", "c"}

ConcatSums ==
    { Bin(Id("a"), "+", Id("b")), Bin(Id("b"), "+", Id("a")),
      Bin(Id("a"), "+", Id("a")), Bin(ListOf(<<>>), "+", Id("a")),
      Bin(Id("a"), "+", ListOf(<<>>)) }

\* append(name, 9); and name[0] = 8;
ConcatMutations(name) ==
    { Do(Call(Id("append"), <<Id(name), Num(9)>>)),
      Do(Assign(Sub(Id(name), Num(0)), Num(8))) }

ConcatPool == UNION {ConcatMutations(name) : name \in ConcatNames}

ConcatPrograms ==
    { << Do(Assign(Id("a"), left)), Do(Assign(Id("b"), right)),
         Do(Assign(Id("c"), sum)) >> \o q :
          left \in { ListOf(<<Num(1), Num(2)>>), ListOf(<<>>),
                     ListOf(<<ListOf(<<Num(5)>>)>>) },
          right \in { ListOf(<<Num(3)>>), ListOf(<<>>) },
          sum \in ConcatSums,
          q \in SeqsUpTo(ConcatPool, MaxConcatSteps) }

InitConcat == InitEvaluator(ConcatPrograms, EvaluatorSources)

SpecConcat == InitConcat /\ [][NextEvaluator]_vars

\* The storage of the list that a name is bound to, now and before the
\* last statement.
ItemsNow(name) == heap[variables[name].data]

ItemsBefore(name) == last.before.heap[last.before.variables[name].data]

\* The items of an operand of the sum before the sum was evaluated.
OperandItems(operand) ==
    IF operand.type = "IDENTIFIER" THEN ItemsBefore(operand.token.value)
    ELSE <<>>

\* C23: the list that a sum of lists returns holds the items of the left
\* operand and then those of the right one, and its storage is that of
\* neither operand; a later append or store through one of a, b and c
\* changes the list of that name only.
TheoremConcatFresh ==
    (index >= 3 /\ pc # "cutoff") =>
        /\ variables["c"].type = "LIST"
        /\ variables["c"].data \notin {variables["a"].data, variables["b"].data}
        /\ index = 3 =>
               /\ ItemsNow("c") =
                      OperandItems(last.statement.expression.expression2.expression1)
                      \o OperandItems(last.statement.expression.expression2.expression2)
               /\ ItemsNow("a") = ItemsBefore("a")
               /\ ItemsNow("b") = ItemsBefore("b")
        /\ \A name \in ConcatNames :
               (index > 3 /\ last.statement \in ConcatMutations(name)) =>
                   /\ error = NoError =>
                          \/ ItemsNow(name) =
                                 Append(ItemsBefore(name), ValueNumber(9, FALSE))
                          \/ /\ ItemsBefore(name) # <<>>
                             /\ ItemsNow(name) =
                                    [ItemsBefore(name) EXCEPT
                                         ![1] = ValueNumber(8, FALSE)]
                   /\ \A other \in ConcatNames \ {name} :
                          ItemsNow(other) = ItemsBefore(other)

\* a = [1, 2]; b = []; c = a + b; append(c, 9); c[0] = 8; has run: a is
\* still [1, 2] and c is [8, 2, 9].
WitnessConcatFresh ==
    /\ index = 5
    /\ pc = "done"
    /\ program[3] = Do(Assign(Id("c"), Bin(Id("a"), "+", Id("b"))))
    /\ ItemsNow("a") = <<ValueNumber(1, FALSE), ValueNumber(2, FALSE)>>
    /\ ItemsNow("b") = <<>>
    /\ ItemsNow("c") = <<ValueNumber(8, FALSE), ValueNumber(2, FALSE),
                         ValueNumber(9, FALSE)>>

(***************************************************************************)
(* Binary operators on every pair of variants.  Every program binds l to   *)
(* [], defines f(v) and g(v), which append 1 and 2 to l and return v, and  *)
(* then runs r = f(v1) op g(v2).                                           *)
(***************************************************************************)
BinaryOperators == {"*", "/", "%", "+", "-", "<", ">", "<=", ">="}

\* An operand and the variant of its value.
BinaryOperands ==
    { [expression |-> Num(1), type |-> "NUMBER"],
      [expression |-> Str(<<"a">>), type |-> "STRING"],
      [expression |-> ListOf(<<Num(1)>>), type |-> "LIST"],
      [expression |-> NoneLiteral, type |-> "NONE"],
      [expression |-> Id("f"), type |-> "FUNCTION"],
      [expression |-> Id("print"), type |-> "BUILTIN_FUNCTION"] }

\* def name(v) { append(l, mark); return v; }
Marking(name, mark, id) ==
    Def(name, <<"v">>,
        << Do(Call(Id("append"), <<Id("l"), Num(mark)>>)),
           StatementReturn(Id("v")) >>, id)

\* r = f(v1) op g(v2);
BinaryOf(operator, v1, v2) ==
    Do(Assign(Id("r"), Bin(Call(Id("f"), <<v1.expression>>), operator,
                           Call(Id("g"), <<v2.expression>>))))

BinaryPrograms ==
    { << Do(Assign(Id("l"), ListOf(<<>>))), Marking("f", 1, 1),
         Marking("g", 2, 2), BinaryOf(operator, v1, v2) >> :
          operator \in BinaryOperators, v1 \in BinaryOperands,
          v2 \in BinaryOperands }

InitBinary == InitEvaluator(BinaryPrograms, EvaluatorSources)

SpecBinary == InitBinary /\ [][NextEvaluator]_vars

\* The pairs of variants that an operator accepts.
Supported(operator) ==
    {<<"NUMBER", "NUMBER">>}
    \cup (IF operator = "*"
          THEN { <<"NUMBER", "STRING">>, <<"STRING", "NUMBER">>,
                 <<"NUMBER", "LIST">>, <<"LIST", "NUMBER">> }
          ELSE IF operator = "+"
          THEN {<<"STRING", "STRING">>, <<"LIST", "LIST">>}
          ELSE {})

\* Both operands have been evaluated, the left one first.
BothEvaluated ==
    heap[variables["l"].data] = <<ValueNumber(1, FALSE), ValueNumber(2, FALSE)>>

\* The diagnostic of a type error that names the operator and both variants.
BinaryTypeError(operator, v1, v2) ==
    /\ error.kind = "Exception"
    /\ error.message = "Type error. '" \o v1.type \o "' " \o operator \o " '"
                       \o v2.type \o "' cannot be evaluated."
    /\ error.line_number = 1

\* What r = f(v1) op g(v2) must have done.
BinaryOutcome(operator, v1, v2) ==
    /\ BothEvaluated
    /\ IF <<v1.type, v2.type>> \in Supported(operator)
       THEN error = NoError
       ELSE BinaryTypeError(operator, v1, v2)

\* C24: a binary operator evaluates both operands, the left one first,
\* before it looks at their variants; on a pair of variants that the
\* operator does not accept it fails with the type error diagnostic that
\* names the operator and both variants.
ClaimBinaryTypeError ==
    \A operator \in BinaryOperators : \A v1, v2 \in BinaryOperands :
        (LastRan /\ last.statement = BinaryOf(operator, v1, v2)) =>
            BinaryOutcome(operator, v1, v2)

\* r = f(None) % g(1); has run on a source whose line ends with a newline:
\* both operands were evaluated, and the failure is not the diagnostic.
WitnessBinaryTypeError ==
    /\ LastRan
    /\ source = <<"#", "\n">>
    /\ \E v1, v2 \in BinaryOperands :
           /\ v1.type = "NONE"
           /\ v2.type = "NUMBER"
           /\ last.statement = BinaryOf("%", v1, v2)
    /\ BothEvaluated
    /\ error.kind = "ValueError"

\* The same for every operator but %, on a source whose line ends with a
\* newline.
BinaryTypeErrorButMod ==
    \A operator \in BinaryOperators \ {"%"} : \A v1, v2 \in BinaryOperands :
        (LastRan /\ source = <<"#", "\n">>
         /\ last.statement = BinaryOf(operator, v1, v2)) =>
            BinaryOutcome(operator, v1, v2)

\* % evaluates both operands in order and fails on every pair that is not
\* a pair of Numbers.
ModEvaluatesBoth ==
    \A v1, v2 \in BinaryOperands :
        (LastRan /\ last.statement = BinaryOf("%", v1, v2)) =>
            /\ BothEvaluated
            /\ error = NoError <=> <<v1.type, v2.type>> = <<"NUMBER", "NUMBER">>

(***************************************************************************)
(* Blocks and if.  Every program binds l to [] and runs one if statement   *)
(* at the top level, whose blocks hold statements that append a mark to l  *)
(* and statements that return a signal other than NEXT.                    *)
(***************************************************************************)
MaxBlock == 3

\* append(l, k);
Mark(k) == Do(Call(Id("append"), <<Id("l"), Num(k)>>))

\* The statements that may stand at position i of a then-block.
BlockStatements(i) ==
    { Mark(i), StatementBreak, StatementContinue, StatementReturn(Num(7)),
      StatementReturn(Null), IfThen(Num(1), <<StatementBreak>>),
      StatementIf(Num(0), <<StatementBreak>>, Else(<<Mark(i + 20)>>)) }

RECURSIVE Blocks(_)
Blocks(n) ==
    IF n = 0 THEN {<<>>}
    ELSE Blocks(n - 1)
         \cup {Append(block, s) : block \in {b \in Blocks(n - 1) : Len(b) = n - 1},
                                  s \in BlockStatements(n)}

ElseBlocks ==
    { NoElse, Else(<<>>), Else(<<Mark(11)>>), Else(<<StatementContinue>>),
      Else(<<Mark(11), StatementReturn(Num(7)), Mark(13)>>),
      Else(<<StatementReturn(Null), Mark(12)>>) }

BlockConditions == {Num(1), Num(0), ListOf(<<>>), Str(<<"a">>)}

BlockPrograms ==
    { << Do(Assign(Id("l"), ListOf(<<>>))),
         StatementIf(condition, block, otherwise) >> :
          condition \in BlockConditions, block \in Blocks(MaxBlock),
          otherwise \in ElseBlocks }

InitBlock == InitEvaluator(BlockPrograms, {<<"#", "\n">>})

SpecBlock == InitBlock /\ [][NextEvaluator]_vars

\* The truth of a condition of BlockConditions.
ConditionHolds(condition) ==
    IF condition.type = "LIST" THEN condition.expression_list # <<>>
    ELSE IF condition.token.type = "number" THEN condition.token.value # 0
    ELSE condition.token.value # <<>>

\* What a statement and a block of these programs must do, by the rules of
\* the claim: the marks appended, and the signal and the value returned.
RECURSIVE StatementOutcome(_)
RECURSIVE BlockOutcome(_, _)
StatementOutcome(statement) ==
    CASE statement.type = "EXPRESSION" ->
             [marks |-> <<statement.expression.expression_list[2].token.value>>,
              control_type |-> "NEXT", value |-> PyNone]
      [] statement.type \in {"BREAK", "CONTINUE"} ->
             [marks |-> <<>>, control_type |-> statement.type, value |-> PyNone]
      [] statement.type = "RETURN" ->
             [marks |-> <<>>, control_type |-> "RETURN",
              value |-> IF statement.expression = Null THEN ValueNone
                        ELSE ValueNumber(statement.expression.token.value, FALSE)]
      [] statement.type = "IF" ->
             IF ConditionHolds(statement.expression)
             THEN BlockOutcome(statement.statement_list1, 1)
             ELSE IF ~statement.statement_list2.none
             THEN BlockOutcome(statement.statement_list2.list, 1)
             ELSE [marks |-> <<>>, control_type |-> "NEXT", value |-> PyNone]

BlockOutcome(block, i) ==
    IF i > Len(block)
    THEN [marks |-> <<>>, control_type |-> "NEXT", value |-> PyNone]
    ELSE LET first == StatementOutcome(block[i])
         IN  IF first.control_type # "NEXT" THEN first
             ELSE [BlockOutcome(block, i + 1) EXCEPT !.marks = first.marks \o @]

\* The if statement of the program has run.
BlockRan == LastRan /\ index = 2

\* C25: a block runs its statements in order up to the first one whose
\* signal is not NEXT and returns that signal and value; the statements
\* after it do not run; an empty block and a block of NEXT statements
\* return (NEXT, None); an if runs its then-block when the condition is
\* truthy, otherwise its else-block if there is one, never both, and
\* returns the signal of that block.
TheoremBlock ==
    BlockRan =>
        LET outcome == StatementOutcome(last.statement)
        IN  /\ heap[variables["l"].data] =
                   [k \in DOMAIN outcome.marks |->
                        ValueNumber(outcome.marks[k], FALSE)]
            /\ last.control_type = outcome.control_type
            /\ last.value = outcome.value
            /\ error = NoError <=> outcome.control_type = "NEXT"

\* if (1) { append(l, 1); if (0) { break; } else { append(l, 22); }
\*          return 7; } else { append(l, 11); return 7; append(l, 13); }
\* has run: l is [1, 22] and the if returned (RETURN, 7).
WitnessBlock ==
    /\ BlockRan
    /\ last.statement =
           StatementIf(Num(1),
               << Mark(1),
                  StatementIf(Num(0), <<StatementBreak>>, Else(<<Mark(22)>>)),
                  StatementReturn(Num(7)) >>,
               Else(<<Mark(11), StatementReturn(Num(7)), Mark(13)>>))
    /\ heap[variables["l"].data] = <<ValueNumber(1, FALSE), ValueNumber(22, FALSE)>>
    /\ last.control_type = "RETURN"
    /\ last.value = ValueNumber(7, FALSE)

(***************************************************************************)
(* The names of the global environment.  Every program runs up to          *)
(* MaxEnvironmentSteps statements that assign to names, define functions,  *)
(* call them and read names, among them the names of builtin functions.    *)
(***************************************************************************)
MaxEnvironmentSteps == 3

\* len = 1;
AssignLen == Do(Assign(Id("len"), Num(1)))

\* def print() { }
DefinePrint == Def("print", <<>>, <<>>, 1)

\* def f(append) { return append; }
DefineF == Def("f", <<"append">>, <<StatementReturn(Id("append"))>>, 2)

\* r = f(5);
CallF == Do(Assign(Id("r"), Call(Id("f"), <<Num(5)>>)))

\* r = len([1]);
CallLen == Do(Assign(Id("r"), Call(Id("len"), <<ListOf(<<Num(1)>>)>>)))

EnvironmentPool ==
    { AssignLen, DefinePrint, DefineF, CallF, CallLen,
      Do(Assign(Id("x"), Num(2))), Do(Assign(Id("y"), Id("undefined"))),
      Do(Assign(Id("r"), Call(Id("print"), <<>>))) }

EnvironmentPrograms == SeqsUpTo(EnvironmentPool, MaxEnvironmentSteps) \ {<<>>}

InitEnvironment == InitEvaluator(EnvironmentPrograms, EvaluatorSources)

SpecEnvironment == InitEnvironment /\ [][NextEvaluator]_vars

\* The last statement was this one and raised no exception.
Succeeded(statement) ==
    index > 0 /\ last.statement = statement /\ error = NoError

\* C26: the environment starts with the seven builtin names and no others;
\* no step removes a name; an assignment, a def and the binding of a
\* parameter give a builtin name a new value; and after len = 1 the call
\* len([1]) fails.
TheoremEnvironment ==
    /\ [](index = 0 =>
              /\ DOMAIN variables =
                     {"print", "assert", "len", "int", "str", "sqrt", "append"}
              /\ \A name \in DOMAIN variables :
                     variables[name] = ValueBuiltinFunction(name))
    /\ [][DOMAIN variables \subseteq DOMAIN variables']_vars
    /\ [](/\ Succeeded(AssignLen) => variables["len"] = ValueNumber(1, FALSE)
          /\ Succeeded(DefinePrint) => variables["print"] = ValueFunction(DefinePrint)
          /\ Succeeded(CallF) =>
                 /\ variables["append"] = ValueNumber(5, FALSE)
                 /\ variables["r"] = ValueNumber(5, FALSE)
          /\ (index > 0 /\ last.statement = CallLen
              /\ last.before.variables["len"].type = "NUMBER") =>
                 /\ pc = "failed"
                 /\ variables = last.before.variables)

\* len = 1; r = len([1]); has run: len is the Number 1, and the call failed.
WitnessEnvironment ==
    /\ index = 2
    /\ program[1] = AssignLen
    /\ last.statement = CallLen
    /\ variables["len"] = ValueNumber(1, FALSE)
    /\ pc = "failed"
    /\ error # NoError

(***************************************************************************)
(* The order of evaluation in list[index] = value.  Every program binds l  *)
(* to [], defines f(v), g(v) and h(v), which append 1, 2 and 3 to l and    *)
(* return v, binds x and i, and runs f(x)[g(i)] = h(9); or it binds a to   *)
(* [] and runs a[k] = append(a, 1).                                        *)
(***************************************************************************)
\* f(x)[g(i)] = h(9);
OrderedStore ==
    Do(Assign(Sub(Call(Id("f"), <<Id("x")>>), Call(Id("g"), <<Id("i")>>)),
              Call(Id("h"), <<Num(9)>>)))

\* a[k] = append(a, 1);
GrowingStore(k) ==
    Do(Assign(Sub(Id("a"), Num(k)), Call(Id("append"), <<Id("a"), Num(1)>>)))

GrowingIndices == {0, 1, 5}

OrderPrograms ==
    { << Do(Assign(Id("l"), ListOf(<<>>))), Marking("f", 1, 1),
         Marking("g", 2, 2), Marking("h", 3, 3),
         Do(Assign(Id("x"), collection)), Do(Assign(Id("i"), i)),
         OrderedStore >> :
          collection \in StoreCollections, i \in StoreIndices }
    \cup { << Do(Assign(Id("a"), ListOf(<<>>))), GrowingStore(k) >> :
             k \in GrowingIndices }

InitOrder == InitEvaluator(OrderPrograms, EvaluatorSources)

SpecOrder == InitOrder /\ [][NextEvaluator]_vars

\* C27: list[index] = value evaluates the list, then the index, then the
\* value, whatever the checks will say, and the checks look at the list as
\* the value's evaluation left it: a = []; a[0] = append(a, 1); succeeds,
\* and what the value's evaluation did stays done when the assignment
\* fails.
TheoremStoreOrder ==
    /\ (LastRan /\ last.statement = OrderedStore) =>
           LET x == last.before.variables["x"]
               i == last.before.variables["i"]
           IN  /\ heap[variables["l"].data] =
                      <<ValueNumber(1, FALSE), ValueNumber(2, FALSE),
                        ValueNumber(3, FALSE)>>
               /\ error = NoError <=>
                      /\ x.type = "LIST"
                      /\ i.type = "NUMBER"
                      /\ ~i.float
                      /\ i.data \in 0 .. Len(last.before.heap[x.data]) - 1
    /\ \A k \in GrowingIndices :
           (LastRan /\ last.statement = GrowingStore(k)) =>
               /\ error = NoError <=> k = 0
               /\ heap[variables["a"].data] =
                      IF k = 0 THEN <<ValueNone>> ELSE <<ValueNumber(1, FALSE)>>

\* a = []; a[0] = append(a, 1); has run without a failure: a is [None].
WitnessStoreOrder ==
    /\ LastRan
    /\ last.statement = GrowingStore(0)
    /\ last.before.heap[variables["a"].data] = <<>>
    /\ error = NoError
    /\ heap[variables["a"].data] = <<ValueNone>>

(***************************************************************************)
(* Lists of lists.  Every program binds n to [0], a to [n], b to a list    *)
(* made from a by * or +, and e to b[0], and then appends to or stores     *)
(* into the inner list through one of its names.                           *)
(***************************************************************************)
SharedCopies ==
    { Bin(Id("a"), "*", Num(2)), Bin(Num(2), "*", Id("a")),
      Bin(Id("a"), "+", Id("a")), Bin(Id("a"), "+", ListOf(<<Id("n")>>)),
      Bin(ListOf(<<Id("n")>>), "+", Id("a")),
      Bin(ListOf(<<ListOf(<<Num(0)>>)>>), "*", Num(2)) }

\* The inner list as b[0], b[1], a[0], e and n name it.
SharedPathsInOrder ==
    << Sub(Id("b"), Num(0)), Sub(Id("b"), Num(1)), Sub(Id("a"), Num(0)),
       Id("e"), Id("n") >>

SharedPaths == {SharedPathsInOrder[k] : k \in DOMAIN SharedPathsInOrder}

SharedMutations ==
    { Do(Call(Id("append"), <<path, Num(1)>>)) : path \in SharedPaths }
    \cup { Do(Assign(Sub(path, Num(0)), Num(5))) : path \in SharedPaths }

SharedPrograms ==
    { << Do(Assign(Id("n"), ListOf(<<Num(0)>>))),
         Do(Assign(Id("a"), ListOf(<<Id("n")>>))),
         Do(Assign(Id("b"), copy)), Do(Assign(Id("e"), Sub(Id("b"), Num(0)))),
         mutation >> :
          copy \in SharedCopies, mutation \in SharedMutations }

InitShared == InitEvaluator(SharedPrograms, EvaluatorSources)

SpecShared == InitShared /\ [][NextEvaluator]_vars

\* b is made of the items of a, and not of a new list [[0]].
MadeFromA == program[3].expression.expression2 \in SharedCopies
                 \ {Bin(ListOf(<<ListOf(<<Num(0)>>)>>), "*", Num(2))}

\* The items of the inner list as seen through b[0], b[1], a[0], e and n.
SeenThrough ==
    << heap[heap[variables["b"].data][1].data],
       heap[heap[variables["b"].data][2].data],
       heap[heap[variables["a"].data][1].data],
       heap[variables["e"].data], heap[variables["n"].data] >>

\* The path that the last statement appends to or stores into, as its
\* place in SharedPathsInOrder, and the items of the inner list after it.
MutatedPath ==
    CHOOSE k \in 1 .. 5 :
        SharedPathsInOrder[k] =
            IF last.statement.expression.type = "CALL"
            THEN last.statement.expression.expression_list[1]
            ELSE last.statement.expression.expression1.expression1

MutatedItems ==
    IF last.statement.expression.type = "CALL"
    THEN <<ValueNumber(0, FALSE), ValueNumber(1, FALSE)>>
    ELSE <<ValueNumber(5, FALSE)>>

\* The paths that lead to the same inner list as path k: all of them when
\* b is made from a; otherwise b[0], b[1] and e lead to the inner list of
\* b, and a[0] and n to that of a.
SharedWith(k) ==
    IF MadeFromA THEN 1 .. 5
    ELSE IF k \in {1, 2, 4} THEN {1, 2, 4}
    ELSE {3, 5}

\* C29: the list that * or + returns is a new list of the same element
\* Values: a List that is an element is one storage in the operand, in the
\* result and in every repetition, and b[0] returns that element itself;
\* so an append or a store through any of b[0], b[1], a[0], e and n is
\* seen through all of them.
TheoremShallow ==
    /\ (index >= 3 /\ pc # "cutoff") =>
           /\ variables["b"].data # variables["a"].data
           /\ Len(heap[variables["b"].data]) = 2
           /\ heap[variables["b"].data][1] = heap[variables["b"].data][2]
           /\ MadeFromA => heap[variables["b"].data][1] = variables["n"]
           /\ heap[variables["a"].data] = <<variables["n"]>>
    /\ (index >= 4 /\ pc # "cutoff") =>
           variables["e"] = heap[variables["b"].data][1]
    /\ (index = 5 /\ LastRan) =>
           /\ error = NoError
           /\ \A k \in 1 .. 5 :
                  SeenThrough[k] =
                      IF k \in SharedWith(MutatedPath) THEN MutatedItems
                      ELSE <<ValueNumber(0, FALSE)>>

\* b = [[0]] * 2; e = b[0]; append(b[0], 1); has run: b[1] is [0, 1].
WitnessShallow ==
    /\ index = 5
    /\ LastRan
    /\ program[3] =
           Do(Assign(Id("b"), Bin(ListOf(<<ListOf(<<Num(0)>>)>>), "*", Num(2))))
    /\ last.statement = Do(Call(Id("append"), <<Sub(Id("b"), Num(0)), Num(1)>>))
    /\ SeenThrough[2] = <<ValueNumber(0, FALSE), ValueNumber(1, FALSE)>>
    /\ SeenThrough[4] = <<ValueNumber(0, FALSE), ValueNumber(1, FALSE)>>

(***************************************************************************)
(* The progress of the parser.  The sources are the texts below and all    *)
(* that is left of each when characters are taken from its start, so that  *)
(* every statement of a block is also the first statement of a source.     *)
(***************************************************************************)
ParserTexts ==
    { \* x = 1;
      <<"x", " ", "=", " ", "1", ";", "\n">>,
      \* ;
      \* x;
      <<";", "\n", "x", ";", "\n">>,
      \* if (x) { y = 1; } else { z = 2; }
      \* x;
      <<"i", "f", " ", "(", "x", ")", " ", "{", " ", "y", " ", "=", " ", "1",
        ";", " ", "}", " ", "e", "l", "s", "e", " ", "{", " ", "z", " ", "=",
        " ", "2", ";", " ", "}", "\n", "x", ";", "\n">>,
      \* while (x) { break; continue; }
      \* ;
      <<"w", "h", "i", "l", "e", " ", "(", "x", ")", " ", "{", " ", "b", "r",
        "e", "a", "k", ";", " ", "c", "o", "n", "t", "i", "n", "u", "e", ";",
        " ", "}", "\n", ";", "\n">>,
      \* def f(a, b) { return a; }
      \* f(1, 2);
      <<"d", "e", "f", " ", "f", "(", "a", ",", " ", "b", ")", " ", "{", " ",
        "r", "e", "t", "u", "r", "n", " ", "a", ";", " ", "}", "\n", "f", "(",
        "1", ",", " ", "2", ")", ";", "\n">>,
      \* return;
      \* return 1;
      <<"r", "e", "t", "u", "r", "n", ";", "\n", "r", "e", "t", "u", "r", "n",
        " ", "1", ";", "\n">>,
      \* x = [1, 2][0] + -y;
      <<"x", " ", "=", " ", "[", "1", ",", " ", "2", "]", "[", "0", "]", " ",
        "+", " ", "-", "y", ";", "\n">>,
      \* if (x) { while (y) { z; } }
      \* x;
      <<"i", "f", " ", "(", "x", ")", " ", "{", " ", "w", "h", "i", "l", "e",
        " ", "(", "y", ")", " ", "{", " ", "z", ";", " ", "}", " ", "}", "\n",
        "x", ";", "\n">>,
      \* if (x) { y = 1;
      <<"i", "f", " ", "(", "x", ")", " ", "{", " ", "y", " ", "=", " ", "1",
        ";", "\n">>,
      \* x = ;
      <<"x", " ", "=", " ", ";", "\n">>,
      \* x = "a" and None;
      <<"x", " ", "=", " ", "\"", "a", "\"", " ", "a", "n", "d", " ", "N",
        "o", "n", "e", ";">>,
      \* if (1) { }
      <<"i", "f", " ", "(", "1", ")", " ", "{", " ", "}">> }

ParserSources ==
    UNION {{SubSeq(text, k, Len(text)) : k \in 1 .. Len(text)} :
              text \in ParserTexts}

InitParserSteps == InitParser(ParserSources)

\* A turn of the loop of __parse_program is taken.
LoopTurn == pc = "statement" /\ current_token # NoToken

\* The guard of ParseStatement: __parse_statement always returns or raises,
\* so the step is possible exactly when its guard holds.
TurnEnabled == LoopTurn /\ Len(program) < MaxStatements

\* The interpreter runs the parser without pause: each of its steps is taken
\* when it stays possible.  The weak fairness of ParseStatement is written
\* out, with TurnEnabled for the enabling of the step.
SpecParserSteps ==
    /\ InitParserSteps
    /\ [][NextParser]_vars
    /\ WF_vars(Parse)
    /\ WF_vars(ReturnProgram)
    /\ \/ []<>(~TurnEnabled)
       \/ []<><<ParseStatement>>_vars

\* C28: a turn of the statement loop that does not fail leaves the
\* tokenizer further in the source, or with no token left, and adds one
\* statement; and every parse comes to its end, with a Program or with a
\* failure.
TheoremParserProgress ==
    /\ [][LoopTurn =>
              \/ pc' = "failed"
              \/ /\ pc' = "statement"
                 /\ Len(program') = Len(program) + 1
                 /\ \/ tokenizer'.index > tokenizer.index
                    \/ current_token' = NoToken]_vars
    /\ [](Len(program) < MaxStatements)
    /\ <>(pc \in {"done", "failed"})

\* if (x) { while (y) { z; } } and x; have been parsed: two statements,
\* the first with a block in a block, and no token is left.
WitnessParserProgress ==
    /\ pc = "done"
    /\ Len(program) = 2
    /\ program[1].type = "IF"
    /\ program[1].statement_list1[1].type = "WHILE"
    /\ Len(program[1].statement_list1[1].statement_list1) = 1
    /\ current_token = NoToken
    /\ tokenizer.index = Len(source)

====
